---- MODULE Spec2Model ----
(***************************************************************************)
(* Model of the traversal simulation engine of diagramAI                   *)
(* (src/src/hooks/useSimulation.ts) on the graphs produced by              *)
(* transformToReactFlow (src/src/hooks/useFlowGenerator.ts).               *)
(*                                                                         *)
(* The hook's React state (status, activeNodeId, visitedNodeIds,           *)
(* visitedEdgeIds), its refs (timerRef, hasMountedRef) and the browser's   *)
(* set of outstanding setTimeout callbacks are the state.  Every handler   *)
(* runs to completion on the single event loop and the component re-renders*)
(* before the next event, so a handler is one atomic action that sees the  *)
(* committed state.                                                        *)
(*                                                                         *)
(* The other parts of the program have specifications of their own over    *)
(* the same variables: the layout (SpecNormalize, SpecLayout, SpecSubtree),*)
(* the validation of a response (SpecValidate), the undo/redo stack        *)
(* (SpecUndo), the request log (SpecRate) and the handlers of the page     *)
(* (SpecApp).  The Init of each keeps the parts it does not model at       *)
(* their values of the first render.                                       *)
(***************************************************************************)
EXTENDS Integers, Sequences, FiniteSets, TLC

VARIABLES
  nodes,           \* Node[] given to useSimulation
  edges,           \* Edge[] given to useSimulation
  status,          \* SimulationStatus
  activeNodeId,    \* string | null
  visitedNodeIds,  \* Set<string>
  visitedEdgeIds,  \* Set<string>
  timerRef,        \* timerRef.current: a timeout id, 0 for null
  timers,          \* outstanding setTimeout callbacks of the browser
  hasMounted,      \* hasMountedRef.current
  mounted,         \* FALSE once the component has been unmounted
  lastOp,          \* history: the handler that ran last
  lastNode,        \* history: the nodeId the last advance was called with
  lastBranch,      \* history: the branch the last choose was called with
  prevStatus,      \* history: status before the last handler
  advanceCount,    \* history: advance calls since the last start()/reset()
  rawGraph,        \* useFlowGenerator: rawGraph, the FlowGraph being laid out
  direction,       \* useFlowGenerator: direction
  layoutVersion,   \* useFlowGenerator: layoutVersion
  dagre,           \* the positions dagre.layout gives, by direction
  positions,       \* the position map enforceYesOnRight works on
  prevPositions,   \* history: positions before the last enforceYesOnRight
  passes,          \* history: number of enforceYesOnRight runs on positions
  twinNodes,       \* Node[] of a second useSimulation instance
  twinEdges,       \* Edge[] of the second instance
  twin,            \* hook state of the second instance
  parsed,          \* generateFlow: the parsed response of the service
  flowResult,      \* generateFlow: what it returned or threw
  stateRef,        \* useUndoRedo: stateRef.current
  undoReturned,    \* history: what the last undo() or redo() returned
  stateBefore,     \* history: stateRef.current before the last call
  subtreeStart,    \* getSubtree: the argument startId
  subtreeExclude,  \* getSubtree: the argument excludeId
  queue,           \* getSubtree: the local queue
  subtreeVisited,  \* getSubtree: the local visited
  now,             \* Date.now(), in milliseconds
  requestLog,      \* localStorage: the timestamps under STORAGE_KEY
  rateResult,      \* checkAndRecord: how the last call ended
  logBefore,       \* history: requestLog before the last call
  acceptedAt,      \* history: the times of all calls that were recorded
  rateCalls,       \* history: number of checkAndRecord calls
  clockSteps,      \* history: number of advances of the clock
  generationId,    \* useFlowGenerator: generationId
  prompt,          \* App: prompt
  pending,         \* the generate call that awaits generateFlow
  flows,           \* useFlowHistory: flows
  mountWork,       \* what the load-on-mount effect has still to deliver
  displayBefore,   \* history: the diagram shown before the last handler
  appOps           \* history: number of handlers of App that have run

simVars == <<nodes, edges, status, activeNodeId, visitedNodeIds,
             visitedEdgeIds, timerRef, timers, hasMounted, mounted, lastOp,
             lastNode, lastBranch, prevStatus, advanceCount>>

layoutVars == <<rawGraph, direction, layoutVersion, dagre, positions,
                prevPositions, passes>>

twinVars == <<twinNodes, twinEdges, twin>>

serviceVars == <<parsed, flowResult>>

undoVars == <<stateRef, undoReturned, stateBefore>>

subtreeVars == <<subtreeStart, subtreeExclude, queue, subtreeVisited>>

rateVars == <<now, requestLog, rateResult, logBefore, acceptedAt, rateCalls,
              clockSteps>>

appVars == <<generationId, prompt, pending, flows, mountWork, displayBefore,
             appOps>>

restVars == <<undoVars, subtreeVars, rateVars, appVars>>

extVars == <<layoutVars, twinVars, serviceVars, restVars>>

vars == <<simVars, extVars>>

----------------------------------------------------------------------------
(* Bounds *)

\* Outstanding timeouts kept by the model at any time.
MaxTimers == 2

\* advance calls followed between two start()/reset() calls.
MaxAdvance == 4

\* Largest coordinate of a position map given to enforceYesOnRight.
MaxCoord == 2

\* Number of times enforceYesOnRight is run on a position map.
MaxPasses == 2

\* Largest column of a placement of dagre.layout.
MaxDagre == 1

\* Number of applyLayout calls: layoutVersion stays below it.
MaxLayouts == 3

\* Largest number of nodes and of edges of a response of the service.
MaxNodes == 3
MaxEdges == 2

\* Number of push calls on the undo/redo stack: two more than MAX_HISTORY.
MaxPushes == 52

\* Number of checkAndRecord calls and of advances of the clock after the
\* page has loaded.
MaxCalls == 6
MaxClockSteps == 2

\* Number of handlers of App that run after the page has loaded.
MaxAppOps == 6

----------------------------------------------------------------------------
(* Values *)

NULL == "null"
NoLabel == "undefined"

\* rawGraph === null: no graph has been generated.
NoGraph == [null |-> TRUE]

\* LayoutDirection
Directions == {"TB", "LR"}

\* dagre.layout has not been run: for one direction, for all of them.
NoPlacement == [null |-> TRUE]
NoPlacements == [d \in Directions |-> NoPlacement]

\* What a call of generateFlow gives: the graph it returns, or the message
\* of the Error it throws and the node id the message names.
Returned(graph) == [graph |-> graph, error |-> "none", node |-> NULL]
Thrown(message, id) == [graph |-> NoGraph, error |-> message, node |-> id]
NotCalled == Thrown("not called", NULL)

\* How a call of checkAndRecord ends: it records the call, or throws a
\* RateLimitError with a scope and a number of seconds to wait.
Recorded == [scope |-> "none", waitSeconds |-> 0]
RateLimitError(scope, waitSeconds) ==
  [scope |-> scope, waitSeconds |-> waitSeconds]
NotChecked == [scope |-> "not called", waitSeconds |-> 0]

\* No generate call awaits generateFlow.
NoRequest == [null |-> TRUE]

\* The load-on-mount effect has nothing to deliver.
NoWork == [null |-> TRUE]

\* present === null, and the null undo() and redo() return.
NoSnapshot == [null |-> TRUE]

\* Delays of the three setTimeout calls, in milliseconds.
ADVANCE_DELAY == 800
START_DELAY == 50
CHOOSE_DELAY == 50

\* String.prototype.toLowerCase on the labels that occur in the graphs.
toLowerCase(s) ==
  CASE s = "Yes" -> "yes"
    [] s = "YES" -> "yes"
    [] s = "yes" -> "yes"
    [] s = "No"  -> "no"
    [] s = "NO"  -> "no"
    [] s = "no"  -> "no"
    [] s = "Retry" -> "retry"
    [] OTHER -> s

\* `e${i}` for the 0-based index i of an edge.
EdgeIdOf(i) == <<"e0", "e1", "e2", "e3", "e4", "e5", "e6", "e7">>[i + 1]

----------------------------------------------------------------------------
(* Graph model: FlowGraph of services/groq *)

FlowNode(id, type) == [id |-> id, label |-> id, type |-> type]
FlowEdge(from, to, label) == [from |-> from, to |-> to, label |-> label]

\* useNodesState([]) / useEdgesState([]): the diagram before any generation.
EmptyGraph == [nodes |-> <<>>, edges |-> <<>>]

\* The scenario of the specification: start(1) -> action(2) ->
\* condition(3) {Yes -> end(4), No -> end(5)}.
ScenarioGraph ==
  [nodes |-> <<FlowNode("1", "start"), FlowNode("2", "action"),
               FlowNode("3", "condition"), FlowNode("4", "end"),
               FlowNode("5", "end")>>,
   edges |-> <<FlowEdge("1", "2", NoLabel), FlowEdge("2", "3", NoLabel),
               FlowEdge("3", "4", "Yes"), FlowEdge("3", "5", "No")>>]

\* An action node with two outgoing edges, a condition whose no edge is
\* listed first and in upper case.
ForkGraph ==
  [nodes |-> <<FlowNode("1", "start"), FlowNode("2", "action"),
               FlowNode("3", "condition"), FlowNode("4", "end")>>,
   edges |-> <<FlowEdge("1", "2", NoLabel), FlowEdge("2", "3", "Retry"),
               FlowEdge("2", "4", NoLabel), FlowEdge("3", "4", "NO"),
               FlowEdge("3", "2", "yes")>>]

\* A condition node and an action node without outgoing edges.
DeadEndGraph ==
  [nodes |-> <<FlowNode("1", "start"), FlowNode("2", "condition"),
               FlowNode("3", "action"), FlowNode("4", "end")>>,
   edges |-> <<FlowEdge("1", "2", NoLabel), FlowEdge("4", "3", NoLabel)>>]

\* No node of type start; an end node with an outgoing edge.
NoStartGraph ==
  [nodes |-> <<FlowNode("1", "action"), FlowNode("2", "end")>>,
   edges |-> <<FlowEdge("1", "2", NoLabel), FlowEdge("2", "1", NoLabel)>>]

\* A start node alone.
LoneStartGraph ==
  [nodes |-> <<FlowNode("1", "start")>>, edges |-> <<>>]

\* start -> action -> end.
LineGraph ==
  [nodes |-> <<FlowNode("1", "start"), FlowNode("2", "action"),
               FlowNode("3", "end")>>,
   edges |-> <<FlowEdge("1", "2", NoLabel), FlowEdge("2", "3", NoLabel)>>]

\* Two conditions in sequence, the first with lower-case labels.
NestedGraph ==
  [nodes |-> <<FlowNode("1", "start"), FlowNode("2", "condition"),
               FlowNode("3", "condition"), FlowNode("4", "end"),
               FlowNode("5", "end")>>,
   edges |-> <<FlowEdge("1", "2", NoLabel), FlowEdge("2", "3", "yes"),
               FlowEdge("2", "5", "no"), FlowEdge("3", "4", "YES"),
               FlowEdge("3", "5", "No")>>]

\* The scenario's shape with the two branch edges in either order, with
\* either spelling of the labels and with either end node as target.
BranchGraph(yesLabel, noLabel, yesFirst, yesTo, noTo) ==
  LET yesEdge == FlowEdge("3", yesTo, yesLabel)
      noEdge == FlowEdge("3", noTo, noLabel)
  IN [nodes |-> ScenarioGraph.nodes,
      edges |-> <<FlowEdge("1", "2", NoLabel), FlowEdge("2", "3", NoLabel)>>
                \o (IF yesFirst THEN <<yesEdge, noEdge>>
                    ELSE <<noEdge, yesEdge>>)]

BranchGraphs ==
  {BranchGraph(yl, nl, yf, yt, nt) :
     yl \in {"Yes", "yes", "YES"}, nl \in {"No", "no", "NO"},
     yf \in BOOLEAN, yt \in {"4", "5"}, nt \in {"4", "5"}}

\* The graphs the hook is mounted with and replaced by.
GraphSet == {EmptyGraph, ScenarioGraph, ForkGraph, DeadEndGraph, NoStartGraph,
             LoneStartGraph}

NodeIds == {"1", "2", "3", "4", "5"}

----------------------------------------------------------------------------
(* Layout: computeLayout, getSubtree, enforceYesOnRight and               *)
(* buildConditionHandleMap of useFlowGenerator                             *)

\* edge.label?.toLowerCase(): undefined stays undefined.
lowerLabel(edge) ==
  IF edge.label = NoLabel THEN NoLabel ELSE toLowerCase(edge.label)

\* getNodeSize: the footprint of a node, by its type only.
getNodeSize(type) ==
  IF type = "condition" THEN [width |-> 120, height |-> 120]
  ELSE [width |-> 180, height |-> 60]

\* The axis enforceYesOnRight compares and translates along.
axisOf(dir) == IF dir = "TB" THEN "x" ELSE "y"

\* graph.edges.filter(e => e.from === id), as indices in edge order.
outEdgesOf(graph, id) == {i \in 1..Len(graph.edges) : graph.edges[i].from = id}

\* outEdges.find(e => e.label?.toLowerCase() === b): the index of the first
\* outgoing edge of id with that lower-cased label, 0 when there is none.
findEdge(graph, id, b) ==
  LET idx == {i \in outEdgesOf(graph, id) : lowerLabel(graph.edges[i]) = b}
  IN IF idx = {} THEN 0 ELSE CHOOSE i \in idx : \A j \in idx : i <= j

\* getSubtree: the node ids reachable from startId without passing through
\* excludeId.
getSubtree(graph, startId, excludeId) ==
  LET RECURSIVE grow(_)
      grow(visited) ==
        LET more == {graph.edges[i].to : i \in
                       {j \in 1..Len(graph.edges) :
                          graph.edges[j].from \in visited}}
            next == (visited \cup more) \ {excludeId}
        IN IF next = visited THEN visited ELSE grow(next)
  IN IF startId = excludeId THEN {} ELSE grow({startId})

\* The translation along the other axis than the one asked for.
translate_otherAxis(pos, ids, axis, d) ==
  [id \in DOMAIN pos |->
     IF id \in ids
     THEN IF axis = "x" THEN [pos[id] EXCEPT !.y = @ + d]
          ELSE [pos[id] EXCEPT !.x = @ + d]
     ELSE pos[id]]

\* positions[id] = { ...positions[id], [axis]: positions[id][axis] + d } for
\* every id of ids.
translate(pos, ids, axis, d) ==
  [id \in DOMAIN pos |->
     IF id \in ids
     THEN IF axis = "x" THEN [pos[id] EXCEPT !.x = @ + d]
          ELSE [pos[id] EXCEPT !.y = @ + d]
     ELSE pos[id]]

\* The loop body with the convergence nodes removed from the yes subtree
\* only: they move with the no subtree.
enforceNode_sharedInNo(graph, pos, dir, node) ==
  LET yesEdge == findEdge(graph, node.id, "yes")
      noEdge == findEdge(graph, node.id, "no")
  IN IF node.type # "condition" THEN pos
     ELSE IF yesEdge = 0 \/ noEdge = 0 THEN pos
     ELSE LET yesTo == graph.edges[yesEdge].to
              noTo == graph.edges[noEdge].to
          IN IF yesTo \notin DOMAIN pos \/ noTo \notin DOMAIN pos THEN pos
             ELSE LET yesRoot == pos[yesTo]
                      noRoot == pos[noTo]
                      yesIsCorrect == IF dir = "TB" THEN yesRoot.x >= noRoot.x
                                      ELSE yesRoot.y <= noRoot.y
                      ySub == getSubtree(graph, yesTo, node.id)
                      nSub == getSubtree(graph, noTo, node.id)
                      delta == IF dir = "TB" THEN noRoot.x - yesRoot.x
                               ELSE noRoot.y - yesRoot.y
                  IN IF yesIsCorrect THEN pos
                     ELSE translate(translate(pos, ySub \ nSub, axisOf(dir),
                                              delta),
                                    nSub, axisOf(dir), 0 - delta)

\* The body of the loop of enforceYesOnRight for one node.
enforceNode(graph, pos, dir, node) ==
  LET yesEdge == findEdge(graph, node.id, "yes")
      noEdge == findEdge(graph, node.id, "no")
  IN IF node.type # "condition" THEN pos
     ELSE IF yesEdge = 0 \/ noEdge = 0 THEN pos
     ELSE LET yesTo == graph.edges[yesEdge].to
              noTo == graph.edges[noEdge].to
          IN IF yesTo \notin DOMAIN pos \/ noTo \notin DOMAIN pos THEN pos
             ELSE LET yesRoot == pos[yesTo]
                      noRoot == pos[noTo]
                      yesIsCorrect == IF dir = "TB" THEN yesRoot.x >= noRoot.x
                                      ELSE yesRoot.y <= noRoot.y
                      ySub == getSubtree(graph, yesTo, node.id)
                      nSub == getSubtree(graph, noTo, node.id)
                      yesSubtree == ySub \ nSub
                      noSubtree == nSub \ ySub
                      delta == IF dir = "TB" THEN noRoot.x - yesRoot.x
                               ELSE noRoot.y - yesRoot.y
                  IN IF yesIsCorrect THEN pos
                     ELSE translate(translate(pos, yesSubtree, axisOf(dir),
                                              delta),
                                    noSubtree, axisOf(dir), 0 - delta)

\* enforceYesOnRight: the loop over graph.nodes in node order, every node
\* working on the positions the nodes before it left.
enforceYesOnRight(graph, pos, dir) ==
  LET RECURSIVE loop(_, _)
      loop(i, p) ==
        IF i > Len(graph.nodes) THEN p
        ELSE loop(i + 1, enforceNode(graph, p, dir, graph.nodes[i]))
  IN loop(1, pos)

\* buildConditionHandleMap(graph).get(`${from}→${to}`): the lower-cased label
\* of the last edge from -> to whose label is yes or no, undefined when
\* there is none.
buildConditionHandleMap(graph, from, to) ==
  LET idx == {i \in 1..Len(graph.edges) :
                /\ graph.edges[i].from = from
                /\ graph.edges[i].to = to
                /\ lowerLabel(graph.edges[i]) \in {"yes", "no"}}
  IN IF idx = {} THEN NoLabel
     ELSE lowerLabel(graph.edges[CHOOSE i \in idx : \A j \in idx : j <= i])

\* graph.nodes.find(n => n.id === id)?.type: the type of the first node
\* with that id.
sourceNodeType(graph, id) ==
  LET idx == {i \in 1..Len(graph.nodes) : graph.nodes[i].id = id}
  IN IF idx = {} THEN NoLabel
     ELSE graph.nodes[CHOOSE i \in idx : \A j \in idx : i <= j].type

\* The sourceHandle transformToReactFlow gives the edge at index i.
sourceHandle(graph, i) ==
  IF sourceNodeType(graph, graph.edges[i].from) = "condition"
  THEN buildConditionHandleMap(graph, graph.edges[i].from, graph.edges[i].to)
  ELSE NoLabel

----------------------------------------------------------------------------
(* transformToReactFlow: the nodes and edges handed to the hook *)

rfNodes(graph) ==
  [i \in 1..Len(graph.nodes) |->
     [id |-> graph.nodes[i].id, type |-> graph.nodes[i].type,
      data |-> [label |-> graph.nodes[i].label]]]

rfEdges(graph) ==
  [i \in 1..Len(graph.edges) |->
     [id |-> EdgeIdOf(i - 1), source |-> graph.edges[i].from,
      target |-> graph.edges[i].to, label |-> graph.edges[i].label,
      sourceHandle |-> sourceHandle(graph, i)]]

----------------------------------------------------------------------------
(* useMemo: adjacencyMap, nodeTypeMap, startNodeId *)

\* branch read from the edge's sourceHandle (the layout anchor) in place of
\* its label.
branch_fromHandle(edge) ==
  IF edge.sourceHandle = "yes" \/ edge.sourceHandle = "no"
  THEN edge.sourceHandle ELSE NoLabel

\* branch without toLowerCase(): only the spellings yes and no count.
branch_caseSensitive(edge) ==
  IF edge.label = "yes" \/ edge.label = "no" THEN edge.label ELSE NoLabel

\* The branch key of an edge: its lower-cased label when that is yes or no.
branch(edge) ==
  LET labelStr == IF edge.label = NoLabel THEN NoLabel
                  ELSE toLowerCase(edge.label)
  IN IF labelStr = "yes" \/ labelStr = "no" THEN labelStr ELSE NoLabel

\* adjacencyMap with unshift in place of push: the outgoing edges in reverse
\* edge order.
adjacencyMap_unshift(es, id) ==
  LET idx == {i \in 1..Len(es) : es[i].source = id}
      RECURSIVE build(_, _)
      build(i, acc) ==
        IF i > Len(es) THEN acc
        ELSE build(i + 1,
                   IF i \in idx
                   THEN <<[targetId |-> es[i].target, edgeId |-> es[i].id,
                           branch |-> branch(es[i])]>> \o acc
                   ELSE acc)
  IN build(1, <<>>)

\* adjacencyMap.get(id) ?? []: the outgoing edges in edge order.
adjacencyMap(es, id) ==
  LET idx == {i \in 1..Len(es) : es[i].source = id}
      RECURSIVE build(_, _)
      build(i, acc) ==
        IF i > Len(es) THEN acc
        ELSE build(i + 1,
                   IF i \in idx
                   THEN Append(acc, [targetId |-> es[i].target,
                                     edgeId |-> es[i].id,
                                     branch |-> branch(es[i])])
                   ELSE acc)
  IN build(1, <<>>)

\* nodeTypeMap.get(id) ?? 'action': a later node of the same id overwrites.
nodeTypeMap(ns, id) ==
  LET idx == {i \in 1..Len(ns) : ns[i].id = id}
  IN IF idx = {} THEN "action"
     ELSE ns[CHOOSE i \in idx : \A j \in idx : j <= i].type

\* The id of the last node of type start, null when there is none.
startNodeId(ns) ==
  LET idx == {i \in 1..Len(ns) : ns[i].type = "start"}
  IN IF idx = {} THEN NULL
     ELSE ns[CHOOSE i \in idx : \A j \in idx : j <= i].id

----------------------------------------------------------------------------
(* The hook's handlers as functions of the hook state *)

Cur == [status |-> status, activeNodeId |-> activeNodeId,
        visitedNodeIds |-> visitedNodeIds, visitedEdgeIds |-> visitedEdgeIds,
        timerRef |-> timerRef, timers |-> timers]

\* timerRef.current = setTimeout(() => advanceRef.current(target), delay)
setTimeout(s, target, delay) ==
  LET used == {t.id : t \in s.timers}
      id == CHOOSE i \in 1..(Cardinality(used) + 1) :
              i \notin used /\ \A j \in 1..(i - 1) : j \in used
  IN [s EXCEPT !.timers = @ \cup {[id |-> id, target |-> target,
                                    delay |-> delay]},
               !.timerRef = id]

clearTimer(s) ==
  IF s.timerRef # 0
  THEN [s EXCEPT !.timers = {t \in @ : t.id # s.timerRef}, !.timerRef = 0]
  ELSE s

\* reset without clearTimer().
reset_noClearTimer(s) ==
  [s EXCEPT !.status = "idle", !.activeNodeId = NULL,
            !.visitedNodeIds = {}, !.visitedEdgeIds = {}]

reset(s) ==
  [clearTimer(s) EXCEPT !.status = "idle", !.activeNodeId = NULL,
                        !.visitedNodeIds = {}, !.visitedEdgeIds = {}]

\* advance that keeps the previous active node next to the new one: the
\* active node becomes a list of several ids.
advance_keepsPrevious(s, ns, es, nodeId) ==
  LET nodeType == nodeTypeMap(ns, nodeId)
      s1 == [s EXCEPT !.activeNodeId = IF @ = NULL \/ @ = nodeId THEN nodeId
                                       ELSE "several",
                      !.visitedNodeIds = @ \cup {nodeId}]
      neighbors == adjacencyMap(es, nodeId)
  IN IF nodeType = "end" THEN [s1 EXCEPT !.status = "complete"]
     ELSE IF nodeType = "condition" THEN [s1 EXCEPT !.status = "paused"]
     ELSE IF Len(neighbors) = 0 THEN [s1 EXCEPT !.status = "complete"]
     ELSE setTimeout([s1 EXCEPT !.status = "running",
                                !.visitedEdgeIds = @ \cup {neighbors[1].edgeId}],
                     neighbors[1].targetId, ADVANCE_DELAY)

\* advance with new Set() in place of new Set(prev) for the visited nodes.
advance_freshSet(s, ns, es, nodeId) ==
  LET nodeType == nodeTypeMap(ns, nodeId)
      s1 == [s EXCEPT !.activeNodeId = nodeId, !.visitedNodeIds = {nodeId}]
      neighbors == adjacencyMap(es, nodeId)
  IN IF nodeType = "end" THEN [s1 EXCEPT !.status = "complete"]
     ELSE IF nodeType = "condition" THEN [s1 EXCEPT !.status = "paused"]
     ELSE IF Len(neighbors) = 0 THEN [s1 EXCEPT !.status = "complete"]
     ELSE setTimeout([s1 EXCEPT !.status = "running",
                                !.visitedEdgeIds = @ \cup {neighbors[1].edgeId}],
                     neighbors[1].targetId, ADVANCE_DELAY)

\* advance without setVisitedNodeIds.
advance_forgetsNode(s, ns, es, nodeId) ==
  LET nodeType == nodeTypeMap(ns, nodeId)
      s1 == [s EXCEPT !.activeNodeId = nodeId]
      neighbors == adjacencyMap(es, nodeId)
  IN IF nodeType = "end" THEN [s1 EXCEPT !.status = "complete"]
     ELSE IF nodeType = "condition" THEN [s1 EXCEPT !.status = "paused"]
     ELSE IF Len(neighbors) = 0 THEN [s1 EXCEPT !.status = "complete"]
     ELSE setTimeout([s1 EXCEPT !.status = "running",
                                !.visitedEdgeIds = @ \cup {neighbors[1].edgeId}],
                     neighbors[1].targetId, ADVANCE_DELAY)

\* advance without the early return for condition nodes.
advance_noConditionStop(s, ns, es, nodeId) ==
  LET nodeType == nodeTypeMap(ns, nodeId)
      s1 == [s EXCEPT !.activeNodeId = nodeId,
                      !.visitedNodeIds = @ \cup {nodeId}]
      neighbors == adjacencyMap(es, nodeId)
  IN IF nodeType = "end" THEN [s1 EXCEPT !.status = "complete"]
     ELSE IF Len(neighbors) = 0 THEN [s1 EXCEPT !.status = "complete"]
     ELSE setTimeout([s1 EXCEPT !.status = "running",
                                !.visitedEdgeIds = @ \cup {neighbors[1].edgeId}],
                     neighbors[1].targetId, ADVANCE_DELAY)

advance(s, ns, es, nodeId) ==
  LET nodeType == nodeTypeMap(ns, nodeId)
      s1 == [s EXCEPT !.activeNodeId = nodeId,
                      !.visitedNodeIds = @ \cup {nodeId}]
      neighbors == adjacencyMap(es, nodeId)
  IN IF nodeType = "end" THEN [s1 EXCEPT !.status = "complete"]
     ELSE IF nodeType = "condition" THEN [s1 EXCEPT !.status = "paused"]
     ELSE IF Len(neighbors) = 0 THEN [s1 EXCEPT !.status = "complete"]
     ELSE setTimeout([s1 EXCEPT !.status = "running",
                                !.visitedEdgeIds = @ \cup {neighbors[1].edgeId}],
                     neighbors[1].targetId, ADVANCE_DELAY)

start(s, ns) ==
  LET s1 == [clearTimer(s) EXCEPT !.status = "running", !.activeNodeId = NULL,
                                  !.visitedNodeIds = {}, !.visitedEdgeIds = {}]
  IN IF startNodeId(ns) = NULL \/ startNodeId(ns) = "" THEN s1
     ELSE setTimeout(s1, startNodeId(ns), START_DELAY)

\* pause without clearTimer().
pause_keepsTimer(s) == [s EXCEPT !.status = "stopped"]

pause(s) == [clearTimer(s) EXCEPT !.status = "stopped"]

\* resume that defers the advance to a timeout instead of calling it.
resume_deferred(s, ns, es) ==
  IF s.activeNodeId = NULL THEN s
  ELSE setTimeout(s, s.activeNodeId, 0)

resume(s, ns, es) ==
  IF s.activeNodeId = NULL THEN s
  ELSE advance(s, ns, es, s.activeNodeId)

\* choose without the test of status.
choose_anyStatus(s, es, b) ==
  IF s.activeNodeId = NULL THEN s
  ELSE LET neighbors == adjacencyMap(es, s.activeNodeId)
           hits == {i \in 1..Len(neighbors) : neighbors[i].branch = b}
       IN IF hits = {} THEN s
          ELSE LET chosen == neighbors[CHOOSE i \in hits :
                                         \A j \in hits : i <= j]
               IN setTimeout([s EXCEPT !.status = "running",
                                       !.visitedEdgeIds = @ \cup {chosen.edgeId}],
                             chosen.targetId, CHOOSE_DELAY)

\* choose without the setTimeout call.
choose_noTimeout(s, es, b) ==
  IF s.status # "paused" \/ s.activeNodeId = NULL THEN s
  ELSE LET neighbors == adjacencyMap(es, s.activeNodeId)
           hits == {i \in 1..Len(neighbors) : neighbors[i].branch = b}
       IN IF hits = {} THEN s
          ELSE LET chosen == neighbors[CHOOSE i \in hits :
                                         \A j \in hits : i <= j]
               IN [s EXCEPT !.status = "running",
                            !.visitedEdgeIds = @ \cup {chosen.edgeId}]

choose(s, es, b) ==
  IF s.status # "paused" \/ s.activeNodeId = NULL THEN s
  ELSE LET neighbors == adjacencyMap(es, s.activeNodeId)
           hits == {i \in 1..Len(neighbors) : neighbors[i].branch = b}
       IN IF hits = {} THEN s
          ELSE LET chosen == neighbors[CHOOSE i \in hits :
                                         \A j \in hits : i <= j]
               IN setTimeout([s EXCEPT !.status = "running",
                                       !.visitedEdgeIds = @ \cup {chosen.edgeId}],
                             chosen.targetId, CHOOSE_DELAY)

----------------------------------------------------------------------------
(* Actions *)

\* Commit the state a handler computed; the model keeps at most MaxTimers
\* outstanding timeouts.
Commit(s) ==
  /\ Cardinality(s.timers) <= MaxTimers
  /\ status' = s.status
  /\ activeNodeId' = s.activeNodeId
  /\ visitedNodeIds' = s.visitedNodeIds
  /\ visitedEdgeIds' = s.visitedEdgeIds
  /\ timerRef' = s.timerRef
  /\ timers' = s.timers

\* The other hooks before anything has been generated.
LayoutIdle ==
  /\ rawGraph = NoGraph
  /\ direction = "LR"
  /\ layoutVersion = 0
  /\ dagre = NoPlacements
  /\ positions = NULL
  /\ prevPositions = NULL
  /\ passes = 0

TwinIdle == twinNodes = <<>> /\ twinEdges = <<>> /\ twin = NULL

\* generateFlow has not been called.
ServiceIdle == parsed = NoGraph /\ flowResult = NotCalled

\* useUndoRedo as useRef constructs it.
EmptyStack == [past |-> <<>>, present |-> NoSnapshot, future |-> <<>>]

UndoIdle ==
  /\ stateRef = EmptyStack
  /\ undoReturned = NoSnapshot
  /\ stateBefore = EmptyStack

\* getSubtree is not running.
SubtreeIdle ==
  /\ subtreeStart = NULL /\ subtreeExclude = NULL
  /\ queue = <<>> /\ subtreeVisited = {}

\* checkAndRecord has not been called and nothing is stored.
RateIdle ==
  /\ now = 0 /\ requestLog = <<>> /\ rateResult = NotChecked
  /\ logBefore = <<>> /\ acceptedAt = <<>> /\ rateCalls = 0 /\ clockSteps = 0

\* App and useFlowGenerator after the first render, nothing to load.
AppIdle ==
  /\ generationId = 0 /\ prompt = "" /\ pending = NoRequest /\ flows = <<>>
  /\ mountWork = NoWork /\ displayBefore = NoSnapshot /\ appOps = 0

RestIdle == UndoIdle /\ SubtreeIdle /\ RateIdle /\ AppIdle

Init ==
  /\ \E g \in GraphSet : nodes = rfNodes(g) /\ edges = rfEdges(g)
  /\ status = "idle"
  /\ activeNodeId = NULL
  /\ visitedNodeIds = {}
  /\ visitedEdgeIds = {}
  /\ timerRef = 0
  /\ timers = {}
  /\ hasMounted = FALSE
  /\ mounted = TRUE
  /\ lastOp = "init"
  /\ lastNode = NULL
  /\ lastBranch = NULL
  /\ prevStatus = "idle"
  /\ advanceCount = 0
  /\ LayoutIdle /\ TwinIdle /\ ServiceIdle /\ RestIdle

\* The effects of the first render: the auto-reset effect only records the
\* mount.
Mount ==
  /\ mounted /\ ~hasMounted
  /\ hasMounted' = TRUE
  /\ lastOp' = "mount" /\ lastNode' = NULL /\ lastBranch' = NULL
  /\ prevStatus' = status
  /\ UNCHANGED extVars
  /\ UNCHANGED <<nodes, edges, status, activeNodeId, visitedNodeIds,
                 visitedEdgeIds, timerRef, timers, mounted, advanceCount>>

Live == mounted /\ hasMounted

Start ==
  /\ Live
  /\ Commit(start(Cur, nodes))
  /\ lastOp' = "start" /\ lastNode' = NULL /\ lastBranch' = NULL
  /\ prevStatus' = status
  /\ UNCHANGED extVars
  /\ advanceCount' = 0
  /\ UNCHANGED <<nodes, edges, hasMounted, mounted>>

Pause ==
  /\ Live
  /\ Commit(pause(Cur))
  /\ lastOp' = "pause" /\ lastNode' = NULL /\ lastBranch' = NULL
  /\ prevStatus' = status
  /\ UNCHANGED extVars
  /\ UNCHANGED <<nodes, edges, hasMounted, mounted, advanceCount>>

Resume ==
  /\ Live
  /\ activeNodeId # NULL => advanceCount < MaxAdvance
  /\ Commit(resume(Cur, nodes, edges))
  /\ lastOp' = "resume" /\ lastNode' = activeNodeId /\ lastBranch' = NULL
  /\ prevStatus' = status
  /\ UNCHANGED extVars
  /\ advanceCount' = IF activeNodeId = NULL THEN advanceCount
                     ELSE advanceCount + 1
  /\ UNCHANGED <<nodes, edges, hasMounted, mounted>>

Choose(b) ==
  /\ Live
  /\ Commit(choose(Cur, edges, b))
  /\ lastOp' = "choose" /\ lastNode' = NULL /\ lastBranch' = b
  /\ prevStatus' = status
  /\ UNCHANGED extVars
  /\ UNCHANGED <<nodes, edges, hasMounted, mounted, advanceCount>>

Reset ==
  /\ Live
  /\ Commit(reset(Cur))
  /\ lastOp' = "reset" /\ lastNode' = NULL /\ lastBranch' = NULL
  /\ prevStatus' = status
  /\ UNCHANGED extVars
  /\ advanceCount' = 0
  /\ UNCHANGED <<nodes, edges, hasMounted, mounted>>

\* The nodes or edges props change identity: the auto-reset effect runs
\* reset() under the new graph.
ReplaceGraph(g) ==
  /\ Live
  /\ nodes' = rfNodes(g) /\ edges' = rfEdges(g)
  /\ Commit(reset(Cur))
  /\ lastOp' = "replace" /\ lastNode' = NULL /\ lastBranch' = NULL
  /\ prevStatus' = status
  /\ UNCHANGED extVars
  /\ advanceCount' = 0
  /\ UNCHANGED <<hasMounted, mounted>>

\* The cleanup of the unmount effect.
Unmount ==
  /\ Live
  /\ Commit(clearTimer(Cur))
  /\ mounted' = FALSE
  /\ lastOp' = "unmount" /\ lastNode' = NULL /\ lastBranch' = NULL
  /\ prevStatus' = status
  /\ UNCHANGED extVars
  /\ UNCHANGED <<nodes, edges, hasMounted, advanceCount>>

\* An outstanding timeout fires: advanceRef.current(target) runs.  The state
\* setters of an unmounted component are ignored by React, the ref and the
\* new timeout are not.
Fire(t) ==
  /\ t \in timers
  /\ advanceCount < MaxAdvance
  /\ LET s == advance([Cur EXCEPT !.timers = @ \ {t}], nodes, edges, t.target)
     IN IF mounted THEN Commit(s)
        ELSE /\ Cardinality(s.timers) <= MaxTimers
             /\ timerRef' = s.timerRef /\ timers' = s.timers
             /\ UNCHANGED <<status, activeNodeId, visitedNodeIds,
                            visitedEdgeIds>>
  /\ lastOp' = "fire" /\ lastNode' = t.target /\ lastBranch' = NULL
  /\ prevStatus' = status
  /\ UNCHANGED extVars
  /\ advanceCount' = advanceCount + 1
  /\ UNCHANGED <<nodes, edges, hasMounted, mounted>>

Next ==
  \/ Mount
  \/ Start
  \/ Pause
  \/ Resume
  \/ \E b \in {"yes", "no"} : Choose(b)
  \/ Reset
  \/ \E g \in GraphSet : ReplaceGraph(g)
  \/ Unmount
  \/ \E t \in timers : Fire(t)

Spec == Init /\ [][Next]_vars

----------------------------------------------------------------------------
(* A single run on a well-formed acyclic graph: start() once, every timeout *)
(* fires, every paused state receives a choose.                             *)

\* Node ids reachable from the ids in S along the edges of graph in one or
\* more steps.
Successors(graph, S) ==
  {graph.edges[i].to : i \in {j \in 1..Len(graph.edges) :
                                graph.edges[j].from \in S}}

RECURSIVE ReachPlus(_, _, _)
ReachPlus(graph, S, k) ==
  IF k = 0 THEN {}
  ELSE Successors(graph, S) \cup ReachPlus(graph, Successors(graph, S), k - 1)

\* The data-model invariants of the graph and the absence of a cycle
\* reachable from the start node.
WellFormedAcyclic(graph) ==
  LET ids == {graph.nodes[i].id : i \in 1..Len(graph.nodes)}
      ofType(ty) == {i \in 1..Len(graph.nodes) : graph.nodes[i].type = ty}
      out(id, b) == {i \in 1..Len(graph.edges) :
                       /\ graph.edges[i].from = id
                       /\ graph.edges[i].label # NoLabel
                       /\ toLowerCase(graph.edges[i].label) = b}
      n == Len(graph.nodes)
  IN /\ Cardinality(ofType("start")) = 1
     /\ ofType("end") # {}
     /\ \A i \in 1..Len(graph.edges) :
          graph.edges[i].from \in ids /\ graph.edges[i].to \in ids
     /\ \A i \in ofType("condition") :
          /\ Cardinality(out(graph.nodes[i].id, "yes")) = 1
          /\ Cardinality(out(graph.nodes[i].id, "no")) = 1
     /\ \A i \in ofType("start") :
          \A id \in {graph.nodes[i].id} \cup ReachPlus(graph, {graph.nodes[i].id}, n) :
            id \notin ReachPlus(graph, {id}, n)

RunGraphs ==
  {g \in GraphSet \cup BranchGraphs \cup {LineGraph, NestedGraph} :
     WellFormedAcyclic(g)}

InitRun ==
  /\ \E g \in RunGraphs : nodes = rfNodes(g) /\ edges = rfEdges(g)
  /\ status = "idle"
  /\ activeNodeId = NULL
  /\ visitedNodeIds = {}
  /\ visitedEdgeIds = {}
  /\ timerRef = 0
  /\ timers = {}
  /\ hasMounted = TRUE
  /\ mounted = TRUE
  /\ lastOp = "mount"
  /\ lastNode = NULL
  /\ lastBranch = NULL
  /\ prevStatus = "idle"
  /\ advanceCount = 0
  /\ LayoutIdle /\ TwinIdle /\ ServiceIdle /\ RestIdle

RunStart == status = "idle" /\ Start

RunChoose == status = "paused" /\ \E b \in {"yes", "no"} : Choose(b)

RunFire == \E t \in timers : Fire(t)

NextRun ==
  \/ RunStart
  \/ RunChoose
  \/ RunFire

\* The browser fires every outstanding timeout; the run's user answers
\* every paused state.
SpecRun ==
  InitRun /\ [][NextRun]_vars /\ WF_vars(RunFire) /\ WF_vars(RunChoose)

----------------------------------------------------------------------------
(* Two useSimulation instances driven by the same calls: one on the edges  *)
(* transformToReactFlow gives, one on the same graph laid out otherwise    *)
(* (other positions, other sourceHandle values on the condition edges).    *)

\* The graphs of the two instances.
TwinGraphs == {ScenarioGraph, ForkGraph}

\* What another layout does to the sourceHandle of a condition edge: the
\* two sides swapped, or no handle at all.
Relayouts == {"swapped", "dropped"}

otherHandle(handle, how) ==
  IF how = "dropped" THEN NoLabel
  ELSE IF handle = "yes" THEN "no"
  ELSE IF handle = "no" THEN "yes"
  ELSE NoLabel

\* es with the sourceHandle of every edge changed that way.
withHandles(es, how) ==
  [i \in 1..Len(es) |->
     [es[i] EXCEPT !.sourceHandle = otherHandle(@, how)]]

\* ns with a position, as the other orientation gives one.
withPositions(ns) ==
  [i \in 1..Len(ns) |->
     [id |-> ns[i].id, type |-> ns[i].type, data |-> ns[i].data,
      position |-> [x |-> i, y |-> 0]]]

InitTwin ==
  /\ \E g \in TwinGraphs :
       /\ nodes = rfNodes(g) /\ edges = rfEdges(g)
       /\ twinNodes = withPositions(rfNodes(g))
       /\ \E how \in Relayouts : twinEdges = withHandles(rfEdges(g), how)
  /\ status = "idle"
  /\ activeNodeId = NULL
  /\ visitedNodeIds = {}
  /\ visitedEdgeIds = {}
  /\ timerRef = 0
  /\ timers = {}
  /\ hasMounted = TRUE
  /\ mounted = TRUE
  /\ lastOp = "mount"
  /\ lastNode = NULL
  /\ lastBranch = NULL
  /\ prevStatus = "idle"
  /\ advanceCount = 0
  /\ twin = Cur
  /\ LayoutIdle /\ ServiceIdle /\ RestIdle

\* Both instances commit the states their handlers computed.
CommitBoth(s, t) ==
  /\ Commit(s)
  /\ Cardinality(t.timers) <= MaxTimers
  /\ twin' = t
  /\ prevStatus' = status
  /\ UNCHANGED <<nodes, edges, hasMounted, mounted, twinNodes, twinEdges,
                 layoutVars, serviceVars, restVars>>

TwinStart ==
  /\ CommitBoth(start(Cur, nodes), start(twin, twinNodes))
  /\ lastOp' = "start" /\ lastNode' = NULL /\ lastBranch' = NULL
  /\ advanceCount' = 0

TwinPause ==
  /\ CommitBoth(pause(Cur), pause(twin))
  /\ lastOp' = "pause" /\ lastNode' = NULL /\ lastBranch' = NULL
  /\ UNCHANGED advanceCount

TwinResume ==
  /\ activeNodeId # NULL
  /\ advanceCount < MaxAdvance
  /\ CommitBoth(resume(Cur, nodes, edges), resume(twin, twinNodes, twinEdges))
  /\ lastOp' = "resume" /\ lastNode' = activeNodeId /\ lastBranch' = NULL
  /\ advanceCount' = advanceCount + 1

TwinChoose(b) ==
  /\ CommitBoth(choose(Cur, edges, b), choose(twin, twinEdges, b))
  /\ lastOp' = "choose" /\ lastNode' = NULL /\ lastBranch' = b
  /\ UNCHANGED advanceCount

\* The same timeout fires in both instances.
TwinFire(t) ==
  /\ t \in timers /\ t \in twin.timers
  /\ advanceCount < MaxAdvance
  /\ CommitBoth(advance([Cur EXCEPT !.timers = @ \ {t}], nodes, edges,
                        t.target),
                advance([twin EXCEPT !.timers = @ \ {t}], twinNodes,
                        twinEdges, t.target))
  /\ lastOp' = "fire" /\ lastNode' = t.target /\ lastBranch' = NULL
  /\ advanceCount' = advanceCount + 1

NextTwin ==
  \/ TwinStart
  \/ TwinPause
  \/ TwinResume
  \/ \E b \in {"yes", "no"} : TwinChoose(b)
  \/ \E t \in timers : TwinFire(t)

SpecTwin == InitTwin /\ [][NextTwin]_vars

----------------------------------------------------------------------------
(* Branch-side normalization: enforceYesOnRight applied to a position map, *)
(* and applied again to its own result.  The position map it is given is   *)
(* the output of dagre.layout, a library outside the repository: any map   *)
(* over the node ids.                                                      *)

\* Both branches of the condition meet again: the yes edge leads to the
\* end node directly, the no edge through an action.
ConvergeGraph ==
  [nodes |-> <<FlowNode("1", "start"), FlowNode("2", "condition"),
               FlowNode("3", "action"), FlowNode("4", "end")>>,
   edges |-> <<FlowEdge("1", "2", NoLabel), FlowEdge("2", "4", "Yes"),
               FlowEdge("2", "3", "No"), FlowEdge("3", "4", NoLabel)>>]

\* Two conditions whose branches overlap: the yes branch of the second
\* leads to the no target of the first.
OverlapGraph ==
  [nodes |-> <<FlowNode("1", "start"), FlowNode("2", "condition"),
               FlowNode("3", "condition"), FlowNode("4", "end"),
               FlowNode("5", "end")>>,
   edges |-> <<FlowEdge("1", "2", NoLabel), FlowEdge("2", "3", "Yes"),
               FlowEdge("2", "4", "No"), FlowEdge("3", "4", "Yes"),
               FlowEdge("3", "5", "No")>>]

\* A retry loop: the no edge of the condition leads back to the action
\* before it.
RetryGraph ==
  [nodes |-> <<FlowNode("1", "start"), FlowNode("2", "action"),
               FlowNode("3", "condition"), FlowNode("4", "end")>>,
   edges |-> <<FlowEdge("1", "2", NoLabel), FlowEdge("2", "3", NoLabel),
               FlowEdge("3", "4", "Yes"), FlowEdge("3", "2", "No")>>]

LayoutGraphs == {ScenarioGraph, ConvergeGraph, OverlapGraph, NestedGraph,
                 ForkGraph, RetryGraph}

\* Coordinates of the position maps along the axis of the direction.
Coords == 0..MaxCoord

idsOf(graph) == {graph.nodes[i].id : i \in 1..Len(graph.nodes)}

indexOf(graph, id) == CHOOSE i \in 1..Len(graph.nodes) : graph.nodes[i].id = id

\* A position map: f along the axis the branches spread on, the rank of
\* the node (here its index) along the other one.
positionMap(graph, dir, f) ==
  [id \in idsOf(graph) |->
     IF dir = "TB" THEN [x |-> f[id], y |-> indexOf(graph, id)]
     ELSE [x |-> indexOf(graph, id), y |-> f[id]]]

\* useSimulation before any diagram exists.
SimIdle ==
  /\ nodes = <<>> /\ edges = <<>>
  /\ status = "idle"
  /\ activeNodeId = NULL
  /\ visitedNodeIds = {}
  /\ visitedEdgeIds = {}
  /\ timerRef = 0
  /\ timers = {}
  /\ hasMounted = TRUE
  /\ mounted = TRUE
  /\ lastOp = "mount"
  /\ lastNode = NULL
  /\ lastBranch = NULL
  /\ prevStatus = "idle"
  /\ advanceCount = 0

InitNormalize ==
  /\ SimIdle /\ TwinIdle /\ ServiceIdle /\ RestIdle
  /\ rawGraph \in LayoutGraphs
  /\ direction \in Directions
  /\ layoutVersion = 0
  /\ dagre = NoPlacements
  /\ \E f \in [idsOf(rawGraph) -> Coords] :
       positions = positionMap(rawGraph, direction, f)
  /\ prevPositions = positions
  /\ passes = 0

\* enforceYesOnRight(graph, positions, direction) on the current positions.
Normalize ==
  /\ passes < MaxPasses
  /\ positions' = enforceYesOnRight(rawGraph, positions, direction)
  /\ prevPositions' = positions
  /\ passes' = passes + 1
  /\ UNCHANGED <<simVars, twinVars, serviceVars, restVars, rawGraph, direction,
                 layoutVersion, dagre>>

NextNormalize == Normalize

SpecNormalize == InitNormalize /\ [][NextNormalize]_vars

----------------------------------------------------------------------------
(* services/groq: the validation at the end of generateFlow                *)

\* FlowGraphSchema.parse: at least one node and one edge, every node type
\* one of the four.
FlowGraphSchema(graph) ==
  /\ Len(graph.nodes) >= 1
  /\ Len(graph.edges) >= 1
  /\ \A i \in 1..Len(graph.nodes) :
       graph.nodes[i].type \in {"start", "end", "action", "condition"}

\* validateFlow with the test for an end node before the test for a start
\* node.
validateFlow_endFirst(graph) ==
  LET nodeIds == {graph.nodes[i].id : i \in 1..Len(graph.nodes)}
      bad == {i \in 1..Len(graph.edges) :
                \/ graph.edges[i].from \notin nodeIds
                \/ graph.edges[i].to \notin nodeIds}
      first == CHOOSE i \in bad : \A j \in bad : i <= j
  IN IF ~\E i \in 1..Len(graph.nodes) : graph.nodes[i].type = "end"
     THEN Thrown("Missing end node", NULL)
     ELSE IF ~\E i \in 1..Len(graph.nodes) : graph.nodes[i].type = "start"
     THEN Thrown("Missing start node", NULL)
     ELSE IF bad # {}
     THEN Thrown("Edge references unknown node",
                 IF graph.edges[first].from \notin nodeIds
                 THEN graph.edges[first].from ELSE graph.edges[first].to)
     ELSE Returned(graph)

\* validateFlow: throws for a graph without start node, without end node,
\* or with an edge whose from (tested first) or to is not a node id; the
\* edges are tested in order.
validateFlow(graph) ==
  LET nodeIds == {graph.nodes[i].id : i \in 1..Len(graph.nodes)}
      bad == {i \in 1..Len(graph.edges) :
                \/ graph.edges[i].from \notin nodeIds
                \/ graph.edges[i].to \notin nodeIds}
      first == CHOOSE i \in bad : \A j \in bad : i <= j
  IN IF ~\E i \in 1..Len(graph.nodes) : graph.nodes[i].type = "start"
     THEN Thrown("Missing start node", NULL)
     ELSE IF ~\E i \in 1..Len(graph.nodes) : graph.nodes[i].type = "end"
     THEN Thrown("Missing end node", NULL)
     ELSE IF bad # {}
     THEN Thrown("Edge references unknown node",
                 IF graph.edges[first].from \notin nodeIds
                 THEN graph.edges[first].from ELSE graph.edges[first].to)
     ELSE Returned(graph)

\* generateFlow from the parsed response on: FlowGraphSchema.parse, then
\* validateFlow, then return graph.
generateFlow(response) ==
  IF ~FlowGraphSchema(response) THEN Thrown("Invalid response structure", NULL)
  ELSE validateFlow(response)

\* The node types of a response; node i has id i.
NodeTypes == {"start", "end", "action", "condition"}

NodeLists(most) ==
  UNION {[1..n -> NodeTypes] : n \in 1..most}

\* The ids the edges of a response name: two node ids and an id that no
\* node has.
EndpointIds == {"1", "2", "9"}

EdgeLists(most) ==
  UNION {[1..n -> EndpointIds \X EndpointIds] : n \in 0..most}

\* The parsed responses of the service with at most so many nodes and edges.
Responses(mostNodes, mostEdges) ==
  {[nodes |-> [i \in 1..Len(ts) |-> FlowNode(<<"1", "2", "3", "4", "5">>[i],
                                              ts[i])],
    edges |-> [i \in 1..Len(es) |-> FlowEdge(es[i][1], es[i][2], NoLabel)]] :
     ts \in NodeLists(mostNodes), es \in EdgeLists(mostEdges)}

InitValidate ==
  /\ SimIdle /\ TwinIdle /\ LayoutIdle /\ RestIdle
  /\ parsed \in Responses(MaxNodes, MaxEdges)
  /\ flowResult = NotCalled

\* The validation of one response.
GenerateFlow ==
  /\ flowResult = NotCalled
  /\ flowResult' = generateFlow(parsed)
  /\ UNCHANGED <<parsed, simVars, twinVars, layoutVars, restVars>>

NextValidate == GenerateFlow

SpecValidate == InitValidate /\ [][NextValidate]_vars

----------------------------------------------------------------------------
(* useFlowGenerator: generate, toggleDirection and clear, with             *)
(* transformToReactFlow as applyLayout calls it.  dagre.layout is a        *)
(* library outside the repository: for one graph and one direction it      *)
(* gives one placement, whichever that is; the placement is drawn when the *)
(* pair is laid out first and is the same on every later call.             *)

\* The graphs generateFlow returns: a labelled condition whose branches
\* meet again, a condition without labels, a condition whose two edges
\* lead to the same node.
UnlabelledGraph ==
  [nodes |-> <<FlowNode("1", "start"), FlowNode("2", "condition"),
               FlowNode("3", "end"), FlowNode("4", "end")>>,
   edges |-> <<FlowEdge("1", "2", NoLabel), FlowEdge("2", "3", NoLabel),
               FlowEdge("2", "4", "Retry")>>]

ParallelGraph ==
  [nodes |-> <<FlowNode("1", "start"), FlowNode("2", "condition"),
               FlowNode("3", "end")>>,
   edges |-> <<FlowEdge("1", "2", NoLabel), FlowEdge("2", "3", "Yes"),
               FlowEdge("2", "3", "No")>>]

GeneratedGraphs == {ConvergeGraph, UnlabelledGraph, ParallelGraph}

\* Distance of two grid lines of the placements dagre.layout gives.
DagreGrid == 240

\* The columns dagre.layout may give the nodes of a graph: any column for
\* a node an edge of a condition node leads to, column 0 for the others.
dagreColumns(graph) ==
  LET branchRoots == {graph.edges[i].to : i \in
                        {j \in 1..Len(graph.edges) :
                           sourceNodeType(graph, graph.edges[j].from)
                             = "condition"}}
  IN {[id \in idsOf(graph) |-> IF id \in branchRoots THEN c[id] ELSE 0] :
        c \in [branchRoots -> 0..MaxDagre]}

\* The centres dagre.layout gives: column f[id] and the row of the node's
\* rank (here its index) in TB, the transposed arrangement in LR.
dagreLayout(graph, dir, f) ==
  [id \in idsOf(graph) |->
     IF dir = "TB"
     THEN [x |-> f[id] * DagreGrid, y |-> indexOf(graph, id) * DagreGrid]
     ELSE [x |-> indexOf(graph, id) * DagreGrid, y |-> f[id] * DagreGrid]]

\* The comparator of the sort in computeLayout.
compareEdges(a, b) ==
  IF lowerLabel(a) = "no" /\ lowerLabel(b) = "yes" THEN 0 - 1
  ELSE IF lowerLabel(a) = "yes" /\ lowerLabel(b) = "no" THEN 1
  ELSE 0

\* [...rawEdges].sort(compare): a stable insertion sort.
sortedEdges(rawEdges) ==
  LET RECURSIVE insert(_, _)
      insert(sorted, e) ==
        IF sorted = <<>> THEN <<e>>
        ELSE IF compareEdges(sorted[Len(sorted)], e) > 0
             THEN Append(insert(SubSeq(sorted, 1, Len(sorted) - 1), e),
                         sorted[Len(sorted)])
             ELSE Append(sorted, e)
      RECURSIVE sortFrom(_, _)
      sortFrom(i, sorted) ==
        IF i > Len(rawEdges) THEN sorted
        ELSE sortFrom(i + 1, insert(sorted, rawEdges[i]))
  IN sortFrom(1, <<>>)

\* rawEdges.sort(compare) without the copy: the caller's array is sorted.
rawEdgesAfterLayout_sortedInPlace(rawEdges) == sortedEdges(rawEdges)

\* The caller's rawEdges after computeLayout: the sort works on a copy.
rawEdgesAfterLayout(rawEdges) == rawEdges

\* computeLayout: the centres of dagre.layout turned into top-left corners
\* by the footprint of the node, then enforceYesOnRight.
computeLayout(graph, dir, centres) ==
  LET typeOfId(id) == graph.nodes[CHOOSE i \in 1..Len(graph.nodes) :
                                     /\ graph.nodes[i].id = id
                                     /\ \A j \in 1..Len(graph.nodes) :
                                          graph.nodes[j].id = id => j <= i].type
      topLeft == [id \in idsOf(graph) |->
                    [x |-> centres[id].x - (getNodeSize(typeOfId(id)).width \div 2),
                     y |-> centres[id].y - (getNodeSize(typeOfId(id)).height \div 2)]]
  IN enforceYesOnRight(graph, topLeft, dir)

\* transformToReactFlow: the nodes with their positions, the edges with
\* their sourceHandle, and the graph argument as the call leaves it.
transformToReactFlow(graph, dir, centres) ==
  LET pos == computeLayout(graph, dir, centres)
      after == [graph EXCEPT !.edges = rawEdgesAfterLayout(@)]
  IN [nodes |-> [i \in 1..Len(after.nodes) |->
                   [id |-> after.nodes[i].id, type |-> after.nodes[i].type,
                    position |-> pos[after.nodes[i].id],
                    data |-> [label |-> after.nodes[i].label]]],
      edges |-> rfEdges(after),
      graph |-> after]

InitLayout ==
  /\ SimIdle /\ TwinIdle /\ LayoutIdle /\ ServiceIdle /\ RestIdle

\* applyLayout(graph, dir): setNodes, setEdges, setLayoutVersion.  memo is
\* what dagre.layout has given for this graph so far.
ApplyLayout(graph, dir, memo) ==
  /\ layoutVersion < MaxLayouts
  /\ \E f \in dagreColumns(graph) :
       LET known == memo[dir]
           centres == IF known = NoPlacement THEN dagreLayout(graph, dir, f)
                      ELSE known.centres
           out == transformToReactFlow(graph, dir, centres)
       IN /\ known # NoPlacement => f = [id \in idsOf(graph) |-> 0]
          /\ nodes' = out.nodes
          /\ edges' = out.edges
          /\ rawGraph' = out.graph
          /\ dagre' = [d \in Directions |->
                         IF d # dir THEN memo[d]
                         ELSE IF known = NoPlacement
                              THEN [centres |-> centres, nodes |-> out.nodes,
                                    edges |-> out.edges, again |-> FALSE]
                              ELSE [known EXCEPT !.again = TRUE]]
  /\ layoutVersion' = layoutVersion + 1

\* generate(prompt) when generateFlow returns the graph g: setRawGraph(g),
\* applyLayout(g, direction).
Generate(g) ==
  /\ generateFlow(g) = Returned(g)
  /\ flowResult' = Returned(g)
  /\ UNCHANGED parsed
  /\ ApplyLayout(g, direction, IF g = rawGraph THEN dagre ELSE NoPlacements)
  /\ lastOp' = "generate"
  /\ UNCHANGED <<direction, positions, prevPositions, passes, twinVars,
                 restVars,
                 status, activeNodeId, visitedNodeIds, visitedEdgeIds,
                 timerRef, timers, hasMounted, mounted, lastNode, lastBranch,
                 prevStatus, advanceCount>>

\* toggleDirection: setDirection(newDir) and, with a graph, applyLayout.
ToggleDirection ==
  LET newDir == IF direction = "TB" THEN "LR" ELSE "TB"
  IN /\ direction' = newDir
     /\ IF rawGraph # NoGraph THEN ApplyLayout(rawGraph, newDir, dagre)
        ELSE UNCHANGED <<nodes, edges, rawGraph, dagre, layoutVersion>>
     /\ lastOp' = "toggleDirection"
     /\ UNCHANGED <<serviceVars, restVars, positions, prevPositions, passes,
                    twinVars,
                    status, activeNodeId, visitedNodeIds, visitedEdgeIds,
                    timerRef, timers, hasMounted, mounted, lastNode,
                    lastBranch, prevStatus, advanceCount>>

\* clear: setNodes([]), setEdges([]), setRawGraph(null).
Clear ==
  /\ rawGraph # NoGraph
  /\ nodes' = <<>> /\ edges' = <<>> /\ rawGraph' = NoGraph
  /\ dagre' = NoPlacements
  /\ lastOp' = "clear"
  /\ UNCHANGED <<serviceVars, restVars, direction, layoutVersion, positions,
                 prevPositions, passes, twinVars,
                 status, activeNodeId, visitedNodeIds, visitedEdgeIds,
                 timerRef, timers, hasMounted, mounted, lastNode, lastBranch,
                 prevStatus, advanceCount>>

NextLayout ==
  \/ \E g \in GeneratedGraphs : Generate(g)
  \/ ToggleDirection
  \/ Clear

SpecLayout == InitLayout /\ [][NextLayout]_vars

----------------------------------------------------------------------------
(* useUndoRedo: push, undo, redo, canUndo, canRedo                         *)

MAX_HISTORY == 50

\* Array.prototype.slice(-n)
sliceLast(seq, n) ==
  IF Len(seq) <= n THEN seq ELSE SubSeq(seq, Len(seq) - n + 1, Len(seq))

\* push without the slice(-MAX_HISTORY).
push_unbounded(s, snapshot) ==
  [past |-> IF s.present # NoSnapshot THEN Append(s.past, s.present)
            ELSE s.past,
   present |-> snapshot,
   future |-> <<>>]

\* push(snapshot): the stack it leaves in stateRef.current.
push(s, snapshot) ==
  [past |-> IF s.present # NoSnapshot
            THEN sliceLast(Append(s.past, s.present), MAX_HISTORY)
            ELSE s.past,
   present |-> snapshot,
   future |-> <<>>]

\* undo that drops the present in place of moving it to the future.
undo_dropsPresent(s) ==
  IF Len(s.past) = 0 THEN [state |-> s, returned |-> NoSnapshot]
  ELSE [state |-> [past |-> SubSeq(s.past, 1, Len(s.past) - 1),
                   present |-> s.past[Len(s.past)],
                   future |-> s.future],
        returned |-> s.past[Len(s.past)]]

\* undo(): the stack it leaves and the value it returns.
undo(s) ==
  IF Len(s.past) = 0 THEN [state |-> s, returned |-> NoSnapshot]
  ELSE [state |-> [past |-> SubSeq(s.past, 1, Len(s.past) - 1),
                   present |-> s.past[Len(s.past)],
                   future |-> IF s.present # NoSnapshot
                              THEN <<s.present>> \o s.future ELSE s.future],
        returned |-> s.past[Len(s.past)]]

\* redo(): the stack it leaves and the value it returns.
redo(s) ==
  IF Len(s.future) = 0 THEN [state |-> s, returned |-> NoSnapshot]
  ELSE [state |-> [past |-> IF s.present # NoSnapshot
                            THEN Append(s.past, s.present) ELSE s.past,
                   present |-> s.future[1],
                   future |-> Tail(s.future)],
        returned |-> s.future[1]]

\* canUndo computed from the present in place of the past.
canUndo_fromPresent(s) == s.present # NoSnapshot

\* canUndo and canRedo as the hook returns them at a render.
canUndo(s) == Len(s.past) > 0
canRedo(s) == Len(s.future) > 0

\* An opaque snapshot, told apart by the serial number of its push.
Snapshot(n) == [serial |-> n]

\* The serial number of the next push: one more than the newest snapshot
\* that the push keeps.
nextSerial(s) == IF s.present = NoSnapshot THEN 1 ELSE s.present.serial + 1

InitUndo ==
  /\ SimIdle /\ TwinIdle /\ LayoutIdle /\ ServiceIdle /\ RestIdle

Push ==
  /\ nextSerial(stateRef) <= MaxPushes
  /\ stateRef' = push(stateRef, Snapshot(nextSerial(stateRef)))
  /\ stateBefore' = stateRef
  /\ lastOp' = "push"
  /\ UNCHANGED undoReturned

Undo ==
  /\ stateRef' = undo(stateRef).state
  /\ undoReturned' = undo(stateRef).returned
  /\ stateBefore' = stateRef
  /\ lastOp' = "undo"

Redo ==
  /\ stateRef' = redo(stateRef).state
  /\ undoReturned' = redo(stateRef).returned
  /\ stateBefore' = stateRef
  /\ lastOp' = "redo"

\* What no call on the stack changes.
UndoFrame ==
  UNCHANGED <<nodes, edges, status, activeNodeId, visitedNodeIds,
              visitedEdgeIds, timerRef, timers, hasMounted, mounted,
              lastNode, lastBranch, prevStatus, advanceCount,
              layoutVars, twinVars, serviceVars, subtreeVars, rateVars,
              appVars>>

NextUndo ==
  \/ Push /\ UndoFrame
  \/ Undo /\ UndoFrame
  \/ Redo /\ UndoFrame

SpecUndo == InitUndo /\ [][NextUndo]_vars

----------------------------------------------------------------------------
(* getSubtree as the loop it is: one action per iteration of the while     *)

\* A node with an edge to itself inside a cycle.
SelfLoopGraph ==
  [nodes |-> <<FlowNode("1", "start"), FlowNode("2", "condition"),
               FlowNode("3", "action"), FlowNode("4", "end")>>,
   edges |-> <<FlowEdge("1", "2", NoLabel), FlowEdge("2", "3", "Yes"),
               FlowEdge("3", "3", "Retry"), FlowEdge("3", "2", NoLabel),
               FlowEdge("2", "4", "No")>>]

SubtreeGraphs == LayoutGraphs \cup {SelfLoopGraph}

\* for (const edge of graph.edges) if (edge.from === id) queue.push(edge.to):
\* the targets of the edges that leave id, in edge order.
targetsOf(graph, id) ==
  LET RECURSIVE from(_)
      from(i) ==
        IF i > Len(graph.edges) THEN <<>>
        ELSE IF graph.edges[i].from = id
             THEN <<graph.edges[i].to>> \o from(i + 1)
             ELSE from(i + 1)
  IN from(1)

\* The iteration without the test id === excludeId.
subtreeStep_noExclude(graph, q, seen, exclude) ==
  IF Head(q) \in seen THEN [queue |-> Tail(q), visited |-> seen]
  ELSE [queue |-> Tail(q) \o targetsOf(graph, Head(q)),
        visited |-> seen \cup {Head(q)}]

\* One iteration of the while loop: queue.shift(), the continue, visited.add
\* and the pushes.
subtreeStep(graph, q, seen, exclude) ==
  IF Head(q) \in seen \/ Head(q) = exclude
  THEN [queue |-> Tail(q), visited |-> seen]
  ELSE [queue |-> Tail(q) \o targetsOf(graph, Head(q)),
        visited |-> seen \cup {Head(q)}]

\* The call getSubtree(graph, startId, excludeId) at its first line.
InitSubtree ==
  /\ SimIdle /\ TwinIdle /\ ServiceIdle /\ UndoIdle /\ RateIdle /\ AppIdle
  /\ rawGraph \in SubtreeGraphs
  /\ direction = "LR" /\ layoutVersion = 0 /\ dagre = NoPlacements
  /\ positions = NULL /\ prevPositions = NULL /\ passes = 0
  /\ subtreeStart \in idsOf(rawGraph)
  /\ subtreeExclude \in idsOf(rawGraph) \cup {NULL}
  /\ queue = <<subtreeStart>>
  /\ subtreeVisited = {}

\* while (queue.length > 0) { ... }
SubtreeStep ==
  /\ queue # <<>>
  /\ queue' = subtreeStep(rawGraph, queue, subtreeVisited, subtreeExclude).queue
  /\ subtreeVisited' = subtreeStep(rawGraph, queue, subtreeVisited, subtreeExclude).visited
  /\ UNCHANGED <<subtreeStart, subtreeExclude, simVars, layoutVars, twinVars,
                 serviceVars, undoVars, rateVars, appVars>>

NextSubtree == SubtreeStep

\* The loop runs on: nothing suspends a synchronous function.
SpecSubtree ==
  InitSubtree /\ [][NextSubtree]_vars /\ WF_vars(SubtreeStep)

----------------------------------------------------------------------------
(* utils/urlShare: checkAndRecord on the request log in localStorage       *)

MAX_PER_MINUTE == 5
MAX_PER_DAY == 50
MinuteMs == 60000
DayMs == 86400000

\* all.filter(t => t > bound), in order.
filterAfter(all, bound) ==
  LET RECURSIVE keep(_)
      keep(i) ==
        IF i > Len(all) THEN <<>>
        ELSE IF all[i] > bound THEN <<all[i]>> \o keep(i + 1)
             ELSE keep(i + 1)
  IN keep(1)

\* Math.min(...timestamps) of a non-empty array.
minOf(timestamps) ==
  CHOOSE t \in {timestamps[i] : i \in 1..Len(timestamps)} :
    \A i \in 1..Len(timestamps) : t <= timestamps[i]

\* Math.ceil(ms / 1000)
ceilSeconds(ms) ==
  IF ms >= 0 THEN (ms + 999) \div 1000 ELSE 0 - ((0 - ms) \div 1000)

\* checkAndRecord with the test of the day before the test of the minute.
checkAndRecord_dayFirst(all, time) ==
  LET last24h == filterAfter(all, time - DayMs)
      lastMinute == filterAfter(last24h, time - MinuteMs)
  IN IF Len(last24h) >= MAX_PER_DAY
     THEN [log |-> all,
           result |-> RateLimitError("day",
                        ceilSeconds(minOf(last24h) + DayMs - time))]
     ELSE IF Len(lastMinute) >= MAX_PER_MINUTE
     THEN [log |-> all,
           result |-> RateLimitError("minute",
                        ceilSeconds(minOf(lastMinute) + MinuteMs - time))]
     ELSE [log |-> Append(last24h, time), result |-> Recorded]

\* checkAndRecord at the time `time` on the stored log `all`: the log it
\* leaves in localStorage and how it ends.
checkAndRecord(all, time) ==
  LET last24h == filterAfter(all, time - DayMs)
      lastMinute == filterAfter(last24h, time - MinuteMs)
  IN IF Len(lastMinute) >= MAX_PER_MINUTE
     THEN [log |-> all,
           result |-> RateLimitError("minute",
                        ceilSeconds(minOf(lastMinute) + MinuteMs - time))]
     ELSE IF Len(last24h) >= MAX_PER_DAY
     THEN [log |-> all,
           result |-> RateLimitError("day",
                        ceilSeconds(minOf(last24h) + DayMs - time))]
     ELSE [log |-> Append(last24h, time), result |-> Recorded]

\* The log that k accepted calls, one every 15 seconds, have left.
SpacedMs == 15000
spacedLog(k) == [i \in 1..k |-> i * SpacedMs]

\* The numbers of calls already in the log when the page loads: none, or
\* enough for the calls that follow to meet the limit of the day.
StoredCalls(calls) == {0} \cup ((MAX_PER_DAY - calls + 1)..(MAX_PER_DAY - 1))

\* The advances of the clock between two calls: a millisecond, a
\* millisecond less than a minute, a day.
ClockAdvances == {1, MinuteMs - 1, DayMs}

\* The page loads a minute after the last call of an earlier session.
InitRate ==
  /\ SimIdle /\ TwinIdle /\ LayoutIdle /\ ServiceIdle /\ UndoIdle
  /\ SubtreeIdle /\ AppIdle
  /\ \E k \in StoredCalls(MaxCalls) :
       /\ requestLog = spacedLog(k)
       /\ now = k * SpacedMs + MinuteMs
  /\ acceptedAt = requestLog
  /\ logBefore = requestLog
  /\ rateResult = NotChecked
  /\ rateCalls = 0
  /\ clockSteps = 0

CheckAndRecord ==
  /\ rateCalls < MaxCalls
  /\ rateCalls' = rateCalls + 1
  /\ requestLog' = checkAndRecord(requestLog, now).log
  /\ rateResult' = checkAndRecord(requestLog, now).result
  /\ logBefore' = requestLog
  /\ acceptedAt' = IF checkAndRecord(requestLog, now).result = Recorded
                   THEN Append(acceptedAt, now) ELSE acceptedAt
  /\ lastOp' = "checkAndRecord"
  /\ UNCHANGED <<now, clockSteps>>

\* Time passes.
ClockAdvance(ms) ==
  /\ clockSteps < MaxClockSteps
  /\ clockSteps' = clockSteps + 1
  /\ now' = now + ms
  /\ lastOp' = "clock"
  /\ UNCHANGED <<requestLog, rateResult, logBefore, acceptedAt, rateCalls>>

\* What neither changes.
RateFrame ==
  UNCHANGED <<nodes, edges, status, activeNodeId, visitedNodeIds,
              visitedEdgeIds, timerRef, timers, hasMounted, mounted,
              lastNode, lastBranch, prevStatus, advanceCount,
              layoutVars, twinVars, serviceVars, undoVars, subtreeVars,
              appVars>>

NextRate ==
  \/ CheckAndRecord /\ RateFrame
  \/ \E ms \in ClockAdvances : ClockAdvance(ms) /\ RateFrame

SpecRate == InitRate /\ [][NextRate]_vars

----------------------------------------------------------------------------
(* App: the handlers of the page over useFlowGenerator, useUndoRedo and    *)
(* useFlowHistory.  A handler and the effects of the render that follows   *)
(* it are one action.  dagre.layout is taken as the function that puts     *)
(* every node in column 0.                                                 *)

\* The graphs generateFlow returns here.
PairGraph ==
  [nodes |-> <<FlowNode("1", "start"), FlowNode("2", "end")>>,
   edges |-> <<FlowEdge("1", "2", NoLabel)>>]

ChainGraph ==
  [nodes |-> <<FlowNode("1", "start"), FlowNode("2", "action"),
               FlowNode("3", "end")>>,
   edges |-> <<FlowEdge("1", "2", NoLabel), FlowEdge("2", "3", NoLabel)>>]

AppGraphs == {PairGraph, ChainGraph}

\* A graph that FlowGraphSchema accepts and validateFlow rejects: it has no
\* start node.
HeadlessGraph ==
  [nodes |-> <<FlowNode("1", "action"), FlowNode("2", "end")>>,
   edges |-> <<FlowEdge("1", "2", NoLabel)>>]

\* The graphs a ?flow= parameter of the URL may decode to.
SharedGraphs == {PairGraph, HeadlessGraph}

\* The prompts typed, the label typed into a node, the node it is typed
\* into.
Prompts == {"p", "q"}
EditedLabel == "x"
EditedId == "1"

\* transformToReactFlow(graph, dir) with the placement of column 0.
layoutOf(graph, dir) ==
  transformToReactFlow(graph, dir,
    dagreLayout(graph, dir, [id \in idsOf(graph) |-> 0]))

\* { nodes, edges, rawGraph, prompt } of a render.
FlowSnapshot(a) ==
  [nodes |-> a.nodes, edges |-> a.edges, rawGraph |-> a.rawGraph,
   prompt |-> a.prompt]

\* applyLayout(graph, dir): setNodes, setEdges, setLayoutVersion.
applyLayout(a, graph, dir) ==
  [a EXCEPT !.nodes = layoutOf(graph, dir).nodes,
            !.edges = layoutOf(graph, dir).edges,
            !.layoutVersion = @ + 1]

\* restore(savedNodes, savedEdges, savedGraph): rawGraph is set only when
\* savedGraph is given.
restore(a, savedNodes, savedEdges, savedGraph) ==
  [a EXCEPT !.nodes = savedNodes, !.edges = savedEdges,
            !.rawGraph = IF savedGraph # NoGraph THEN savedGraph ELSE @]

\* restoreFromGraph(graph) of the render whose direction was dir.
restoreFromGraph(a, graph, dir) ==
  applyLayout([a EXCEPT !.rawGraph = graph], graph, dir)

\* generate(prompt): the call, up to the await.
generateCall(a, p) ==
  [a EXCEPT !.prompt = p, !.pending = [direction |-> a.direction]]

\* generate: generateFlow has returned graph; then the effect on
\* generationId pushes the snapshot of the new render.
generateReturns(a, graph) ==
  LET b == [applyLayout([a EXCEPT !.rawGraph = graph], graph,
                        a.pending.direction)
              EXCEPT !.generationId = @ + 1, !.pending = NoRequest]
  IN [b EXCEPT !.stateRef = push(b.stateRef, FlowSnapshot(b))]

\* generate: generateFlow has thrown.
generateThrows(a) == [a EXCEPT !.pending = NoRequest]

\* toggleDirection of useFlowGenerator.
toggleDirection(a) ==
  LET newDir == IF a.direction = "TB" THEN "LR" ELSE "TB"
      b == [a EXCEPT !.direction = newDir]
  IN IF a.rawGraph # NoGraph THEN applyLayout(b, a.rawGraph, newDir) ELSE b

\* updateNodeLabel(id, label): only the displayed nodes change.
updateNodeLabel(a, id, label) ==
  [a EXCEPT !.nodes = [i \in 1..Len(a.nodes) |->
                         IF a.nodes[i].id = id
                         THEN [a.nodes[i] EXCEPT !.data.label = label]
                         ELSE a.nodes[i]]]

\* clear of useFlowGenerator.
clear(a) == [a EXCEPT !.nodes = <<>>, !.edges = <<>>, !.rawGraph = NoGraph]

handleClear(a) ==
  clear([a EXCEPT !.stateRef = push(a.stateRef, FlowSnapshot(a))])

handleNodeLabelChange(a, id, label) ==
  updateNodeLabel([a EXCEPT !.stateRef = push(a.stateRef, FlowSnapshot(a))],
                  id, label)

MAX_FLOWS == 20

\* handleSave: save(prompt, nodes, edges, rawGraph ?? undefined) when there
\* are nodes and a prompt.
handleSave(a) ==
  IF Len(a.nodes) > 0 /\ a.prompt # ""
  THEN [a EXCEPT !.flows = SubSeq(<<[prompt |-> a.prompt, graph |-> a.rawGraph,
                                     nodes |-> a.nodes, edges |-> a.edges]>>
                                    \o @, 1,
                                  IF Len(@) + 1 > MAX_FLOWS THEN MAX_FLOWS
                                  ELSE Len(@) + 1)]
  ELSE a

handleLoad(a, flow) ==
  restore([a EXCEPT !.stateRef = push(a.stateRef, FlowSnapshot(a)),
                    !.prompt = flow.prompt],
          flow.nodes, flow.edges, flow.graph)

\* handleUndo and handleRedo: the snapshot the stack returns is restored.
handleUndo(a) ==
  LET r == undo(a.stateRef)
      b == [a EXCEPT !.stateRef = r.state]
  IN IF r.returned = NoSnapshot THEN b
     ELSE restore([b EXCEPT !.prompt = r.returned.prompt],
                  r.returned.nodes, r.returned.edges, r.returned.rawGraph)

handleRedo(a) ==
  LET r == redo(a.stateRef)
      b == [a EXCEPT !.stateRef = r.state]
  IN IF r.returned = NoSnapshot THEN b
     ELSE restore([b EXCEPT !.prompt = r.returned.prompt],
                  r.returned.nodes, r.returned.edges, r.returned.rawGraph)

\* The load-on-mount effect delivers: decompressGraph resolves and
\* restoreFromGraph of the first render runs, or it rejects; or the timeout
\* restores the auto-saved session.
mountDelivers(a, work) ==
  LET b == [a EXCEPT !.mountWork = NoWork]
  IN IF work.kind = "url"
     THEN IF FlowGraphSchema(work.graph)
          THEN [restoreFromGraph(b, work.graph, "LR")
                  EXCEPT !.prompt = work.prompt]
          ELSE b
     ELSE [restore(b, work.session.nodes, work.session.edges,
                   work.session.rawGraph)
             EXCEPT !.prompt = work.session.prompt]

\* A session the page has auto-saved: a generated graph as displayed in the
\* direction dir.
sessionOf(graph, dir, p) ==
  [nodes |-> layoutOf(graph, dir).nodes, edges |-> layoutOf(graph, dir).edges,
   rawGraph |-> graph, prompt |-> p]

\* What the page finds when it loads: nothing, a shared diagram in the URL,
\* or the session of an earlier visit.
MountWorks ==
  {NoWork}
    \cup {[kind |-> "url", graph |-> g, prompt |-> "p"] : g \in SharedGraphs}
    \cup {[kind |-> "session", session |-> sessionOf(ChainGraph, "TB", "p")]}

\* The state of the page as one record, and the diagram it shows.
App ==
  [nodes |-> nodes, edges |-> edges, rawGraph |-> rawGraph,
   direction |-> direction, layoutVersion |-> layoutVersion,
   generationId |-> generationId, prompt |-> prompt, pending |-> pending,
   flows |-> flows, mountWork |-> mountWork, stateRef |-> stateRef]

Display(a) == [nodes |-> a.nodes, edges |-> a.edges, prompt |-> a.prompt]

InitApp ==
  /\ SimIdle /\ TwinIdle /\ LayoutIdle /\ ServiceIdle /\ UndoIdle
  /\ SubtreeIdle /\ RateIdle
  /\ generationId = 0 /\ prompt = "" /\ pending = NoRequest /\ flows = <<>>
  /\ mountWork \in MountWorks
  /\ displayBefore = NoSnapshot
  /\ appOps = 0

\* The handler op takes the page from App to b.
AppStep(op, b) ==
  /\ appOps < MaxAppOps
  /\ appOps' = appOps + 1
  /\ lastOp' = op
  /\ nodes' = b.nodes /\ edges' = b.edges /\ rawGraph' = b.rawGraph
  /\ direction' = b.direction /\ layoutVersion' = b.layoutVersion
  /\ generationId' = b.generationId /\ prompt' = b.prompt
  /\ pending' = b.pending /\ flows' = b.flows /\ mountWork' = b.mountWork
  /\ stateRef' = b.stateRef
  /\ stateBefore' = stateRef
  /\ undoReturned' = IF op = "undo" THEN undo(stateRef).returned
                     ELSE IF op = "redo" THEN redo(stateRef).returned
                     ELSE undoReturned
  /\ displayBefore' = Display(App)
  /\ UNCHANGED <<status, activeNodeId, visitedNodeIds, visitedEdgeIds,
                 timerRef, timers, hasMounted, mounted, lastNode, lastBranch,
                 prevStatus, advanceCount, dagre, positions, prevPositions,
                 passes, twinVars, serviceVars, subtreeVars, rateVars>>

\* The prompt is typed and Generate is pressed; the button is disabled
\* while a call is pending.
SubmitPrompt(p) ==
  /\ pending = NoRequest
  /\ AppStep("submit", generateCall(App, p))

GenerateReturns(g) ==
  /\ pending # NoRequest
  /\ generateFlow(g) = Returned(g)
  /\ AppStep("generate", generateReturns(App, g))

GenerateThrows ==
  /\ pending # NoRequest
  /\ AppStep("generateFailed", generateThrows(App))

\* The buttons Clear, Save and the layout toggle are disabled without nodes.
AppToggleDirection ==
  /\ Len(nodes) > 0
  /\ AppStep("toggleDirection", toggleDirection(App))

HandleClear ==
  /\ Len(nodes) > 0
  /\ AppStep("clear", handleClear(App))

HandleNodeLabelChange ==
  /\ \E i \in 1..Len(nodes) : nodes[i].id = EditedId
  /\ AppStep("editLabel", handleNodeLabelChange(App, EditedId, EditedLabel))

HandleSave ==
  /\ Len(nodes) > 0
  /\ AppStep("save", handleSave(App))

HandleLoad(i) ==
  /\ i \in 1..Len(flows)
  /\ AppStep("load", handleLoad(App, flows[i]))

HandleUndo == AppStep("undo", handleUndo(App))

HandleRedo == AppStep("redo", handleRedo(App))

MountDelivers ==
  /\ mountWork # NoWork
  /\ AppStep("mount", mountDelivers(App, mountWork))

NextApp ==
  \/ \E p \in Prompts : SubmitPrompt(p)
  \/ \E g \in AppGraphs : GenerateReturns(g)
  \/ GenerateThrows
  \/ AppToggleDirection
  \/ HandleClear
  \/ HandleNodeLabelChange
  \/ HandleSave
  \/ \E i \in 1..MAX_FLOWS : HandleLoad(i)
  \/ HandleUndo
  \/ HandleRedo
  \/ MountDelivers

SpecApp == InitApp /\ [][NextApp]_vars

----------------------------------------------------------------------------
(* Helpers of the properties *)

\* The step is a call advance(lastNode') made on the mounted component, by a
\* timeout firing or by resume().
AdvanceStep ==
  /\ mounted
  /\ lastOp' \in {"fire", "resume"}
  /\ lastNode' # NULL

\* The edges leaving node id, as indices into edges, in insertion order.
OutEdges(id) == {i \in 1..Len(edges) : edges[i].source = id}

\* The step schedules no timeout.
NothingScheduled == timers' \subseteq timers

----------------------------------------------------------------------------
(* Properties *)

\* C1: in every reachable state at most one scheduled advance callback is
\* outstanding.
AtMostOneTimer == Cardinality(timers) <= 1

\* C2: once pause(), reset() or the unmount cleanup has run, no advance
\* callback executes before start(), resume() or choose() is called.
NoAdvanceAfterCancel ==
  [][(lastOp \in {"pause", "reset", "unmount"}) => (lastOp' # "fire")]_vars

\* C3: right after start() on a graph with a start node the subtreeVisited sets are
\* empty, no node is active and the only outstanding timeout is the delayed
\* advance on the start node, so nothing of the previous run can still fire.
StartCancelsPreviousRun ==
  (lastOp = "start" /\ startNodeId(nodes) # NULL) =>
    /\ visitedNodeIds = {} /\ visitedEdgeIds = {} /\ activeNodeId = NULL
    /\ timers = {[id |-> timerRef, target |-> startNodeId(nodes),
                  delay |-> START_DELAY]}

\* C4: start() on a graph without a start node changes nothing and
\* schedules nothing.
StartWithoutStartNodeIsNoop ==
  [][(lastOp' = "start" /\ startNodeId(nodes) = NULL) =>
       UNCHANGED <<status, activeNodeId, visitedNodeIds, visitedEdgeIds,
                   timers>>]_vars

\* C5: on a well-formed acyclic graph a run begun with start(), whose
\* timeouts fire and whose paused states receive a choose, reaches complete,
\* after as many advance steps as there are nodes on the traversed path.
RunCompletes ==
  (lastOp = "start") ~>
    (/\ status = "complete"
     /\ advanceCount = Cardinality(visitedNodeIds)
     /\ advanceCount = Cardinality(visitedEdgeIds) + 1)

RunCompletesWitness ==
  /\ status = "complete"
  /\ lastOp = "fire"
  /\ advanceCount = 4
  /\ visitedNodeIds = {"1", "2", "3", "5"}

\* C6: a resume() that follows a pause() of a run in progress leaves the
\* status stopped.
ResumeContinuesRun ==
  [][(/\ lastOp = "pause"
      /\ prevStatus \in {"running", "paused"}
      /\ startNodeId(nodes) # NULL
      /\ lastOp' = "resume") => (status' # "stopped")]_vars

TerminalNodeCompletes ==
  [][(AdvanceStep /\ OutEdges(lastNode') = {}) =>
       /\ status' = "complete"
       /\ activeNodeId' = lastNode'
       /\ NothingScheduled]_vars

\* C9: advance on an end node gives complete and schedules nothing; advance
\* on a condition node gives paused, schedules nothing and adds no edge; and
\* only choose ever adds an edge that leaves a condition node.
AdvanceStopsAtEndAndCondition ==
  [][/\ (AdvanceStep /\ nodeTypeMap(nodes, lastNode') = "end") =>
          /\ status' = "complete"
          /\ activeNodeId' = lastNode'
          /\ NothingScheduled
     /\ (AdvanceStep /\ nodeTypeMap(nodes, lastNode') = "condition") =>
          /\ status' = "paused"
          /\ activeNodeId' = lastNode'
          /\ NothingScheduled
          /\ visitedEdgeIds' = visitedEdgeIds
     /\ (lastOp' # "choose") =>
          \A i \in 1..Len(edges) :
            nodeTypeMap(nodes, edges[i].source) = "condition" =>
              edges[i].id \notin visitedEdgeIds' \ visitedEdgeIds]_vars

AdvanceStopsAtEndAndConditionWitness ==
  /\ lastOp = "fire"
  /\ status = "paused"
  /\ nodeTypeMap(nodes, activeNodeId) = "condition"
  /\ OutEdges(activeNodeId) # {}
  /\ visitedEdgeIds # {}
  /\ timers = {}

\* C10: advance on a start or action node with an outgoing edge marks
\* exactly the first outgoing edge in edge order subtreeVisited, sets status to
\* running and schedules one delayed advance on that edge's target.
AdvanceTakesFirstEdge ==
  [][(/\ AdvanceStep
      /\ nodeTypeMap(nodes, lastNode') \in {"start", "action"}
      /\ OutEdges(lastNode') # {}) =>
       LET first == edges[CHOOSE i \in OutEdges(lastNode') :
                            \A j \in OutEdges(lastNode') : i <= j]
           new == [id |-> timerRef', target |-> first.target,
                   delay |-> ADVANCE_DELAY]
       IN /\ visitedEdgeIds' = visitedEdgeIds \cup {first.id}
          /\ status' = "running"
          /\ activeNodeId' = lastNode'
          /\ new \in timers'
          /\ timers' \ {new} \subseteq timers]_vars

AdvanceTakesFirstEdgeWitness ==
  /\ lastOp = "fire"
  /\ lastNode = "2"
  /\ Cardinality(OutEdges("2")) = 2
  /\ status = "running"
  /\ visitedEdgeIds = {"e0", "e1"}
  /\ \E t \in timers : t.target = "3"

\* The edges leaving node id whose label is b up to case, as indices into
\* edges.
LabelledEdges(id, b) ==
  {i \in OutEdges(id) : edges[i].label # NoLabel
                         /\ toLowerCase(edges[i].label) = b}

\* C11: in status paused, choose(b) takes the first outgoing edge of the
\* active node whose label is b up to case: it marks that edge subtreeVisited, sets
\* status to running and schedules one delayed advance on the edge's target.
ChooseTakesLabelledEdge ==
  [][(/\ lastOp' = "choose"
      /\ status = "paused"
      /\ activeNodeId # NULL
      /\ LabelledEdges(activeNodeId, lastBranch') # {}) =>
       LET hit == edges[CHOOSE i \in LabelledEdges(activeNodeId, lastBranch') :
                          \A j \in LabelledEdges(activeNodeId, lastBranch') :
                            i <= j]
           new == [id |-> timerRef', target |-> hit.target,
                   delay |-> CHOOSE_DELAY]
       IN /\ visitedEdgeIds' = visitedEdgeIds \cup {hit.id}
          /\ status' = "running"
          /\ new \in timers'
          /\ timers' \ {new} \subseteq timers
          /\ UNCHANGED <<activeNodeId, visitedNodeIds>>]_vars

ChooseTakesLabelledEdgeWitness ==
  /\ lastOp = "choose"
  /\ lastBranch = "no"
  /\ prevStatus = "paused"
  /\ status = "running"
  /\ activeNodeId = "3"
  /\ \E i \in 1..Len(edges) :
       /\ edges[i].label = "NO"
       /\ edges[i].id \in visitedEdgeIds
       /\ \E t \in timers : t.id = timerRef /\ t.target = edges[i].target

\* C12: choose(b) outside status paused, or with no outgoing edge of the
\* active node labelled b, changes neither the simulation state nor the
\* outstanding timeouts.
ChooseIgnoredWhenInvalid ==
  [][(/\ lastOp' = "choose"
      /\ \/ status # "paused"
         \/ activeNodeId = NULL
         \/ LabelledEdges(activeNodeId, lastBranch') = {}) =>
       UNCHANGED <<status, activeNodeId, visitedNodeIds, visitedEdgeIds,
                   timerRef, timers>>]_vars

ChooseIgnoredWhenInvalidWitness ==
  /\ lastOp = "choose"
  /\ prevStatus = "stopped"
  /\ status = "stopped"
  /\ activeNodeId # NULL
  /\ nodeTypeMap(nodes, activeNodeId) = "condition"
  /\ LabelledEdges(activeNodeId, lastBranch) # {}

\* The graph given to the hook is one of the well-formed acyclic graphs.
OnWellFormedAcyclicGraph ==
  \E g \in RunGraphs : nodes = rfNodes(g) /\ edges = rfEdges(g)

\* C13: on an acyclic graph, at a condition node whose yes and no edges lead
\* to distinct nodes, at most one of the two edges is subtreeVisited within a run,
\* and the target of the other edge is not subtreeVisited.
OnlyChosenBranchVisited ==
  OnWellFormedAcyclicGraph =>
    \A c \in NodeIds :
      \A y \in LabelledEdges(c, "yes") : \A n \in LabelledEdges(c, "no") :
        (/\ nodeTypeMap(nodes, c) = "condition"
         /\ edges[y].target # edges[n].target) =>
          /\ ~(edges[y].id \in visitedEdgeIds /\ edges[n].id \in visitedEdgeIds)
          /\ edges[y].id \in visitedEdgeIds =>
               edges[n].target \notin visitedNodeIds
          /\ edges[n].id \in visitedEdgeIds =>
               edges[y].target \notin visitedNodeIds

\* The subtreeVisited nodes and edges are exactly the nodes and edges of one path
\* from the start node to node a: every subtreeVisited node but the start node is
\* entered by one subtreeVisited edge, every subtreeVisited node but a is left by one
\* subtreeVisited edge, and no subtreeVisited edge enters the start node or leaves a.
VisitedIsPathTo(a) ==
  LET s0 == startNodeId(nodes)
      ve == {i \in 1..Len(edges) : edges[i].id \in visitedEdgeIds}
      into(n) == {i \in ve : edges[i].target = n}
      outOf(n) == {i \in ve : edges[i].source = n}
  IN /\ s0 \in visitedNodeIds
     /\ a \in visitedNodeIds
     /\ \A i \in ve : edges[i].source \in visitedNodeIds
                      /\ edges[i].target \in visitedNodeIds
     /\ \A n \in visitedNodeIds :
          /\ Cardinality(into(n)) = IF n = s0 THEN 0 ELSE 1
          /\ Cardinality(outOf(n)) = IF n = a THEN 0 ELSE 1
     /\ Cardinality(visitedEdgeIds) = Cardinality(ve)
     /\ Cardinality(ve) + 1 = Cardinality(visitedNodeIds)

\* C14: in a run without pause or reset, whenever the run is paused at a
\* condition node (the first time in particular), the subtreeVisited nodes and
\* edges are exactly those of the path taken from the start node to it.
PathVisitedAtPause ==
  status = "paused" =>
    /\ nodeTypeMap(nodes, activeNodeId) = "condition"
    /\ VisitedIsPathTo(activeNodeId)

PathVisitedAtPauseWitness ==
  /\ status = "paused"
  /\ lastOp = "fire"
  /\ activeNodeId = "3"
  /\ visitedNodeIds = {"1", "2", "3"}
  /\ visitedEdgeIds = {"e0", "e1"}

\* C15: resume() with an active node runs advance on it at once: the node
\* stays active and the status is complete for an end node, paused for a
\* condition node, running with one scheduled advance on the first edge's
\* target for a start or action node with an outgoing edge; without an
\* active node resume() changes nothing.
ResumeReappliesAdvance ==
  [][lastOp' = "resume" =>
       IF activeNodeId = NULL
       THEN UNCHANGED <<status, activeNodeId, visitedNodeIds, visitedEdgeIds,
                        timerRef, timers>>
       ELSE LET type == nodeTypeMap(nodes, activeNodeId)
                out == OutEdges(activeNodeId)
            IN /\ activeNodeId' = activeNodeId
               /\ visitedNodeIds' = visitedNodeIds \cup {activeNodeId}
               /\ type = "end" => status' = "complete" /\ NothingScheduled
               /\ type = "condition" => status' = "paused" /\ NothingScheduled
               /\ (type \in {"start", "action"} /\ out # {}) =>
                    LET first == edges[CHOOSE i \in out : \A j \in out : i <= j]
                    IN /\ status' = "running"
                       /\ \E t \in timers' \ timers :
                            /\ t.id = timerRef'
                            /\ t.target = first.target
                            /\ timers' = timers \cup {t}]_vars

ResumeReappliesAdvanceWitness ==
  /\ lastOp = "resume"
  /\ prevStatus = "stopped"
  /\ status = "running"
  /\ activeNodeId = "2"
  /\ \E t \in timers : t.id = timerRef /\ t.target = "3"

VisitedSetsGrow ==
  [][(lastOp' \notin {"start", "reset", "replace"}) =>
       /\ visitedNodeIds \subseteq visitedNodeIds'
       /\ visitedEdgeIds \subseteq visitedEdgeIds']_vars

VisitedSetsGrowWitness ==
  /\ lastOp = "fire"
  /\ Cardinality(visitedNodeIds) >= 3
  /\ Cardinality(visitedEdgeIds) >= 2

\* C18: after the graph given to the hook is replaced, the state is idle
\* with no active node and empty subtreeVisited sets, and no timeout scheduled for
\* the old graph is outstanding any more.
GraphReplacementResets ==
  lastOp = "replace" =>
    /\ status = "idle"
    /\ activeNodeId = NULL
    /\ visitedNodeIds = {}
    /\ visitedEdgeIds = {}
    /\ timers = {}

\* C19: every transition into status stopped starts from status running or
\* paused.
StoppedOnlyFromRun ==
  [][(status' = "stopped" /\ status # "stopped") =>
       status \in {"running", "paused"}]_vars

\* C20: status paused implies that the active node is a condition node and no
\* timeout is outstanding; status complete implies that the active node is an
\* end node or has no outgoing edge.
StatusMatchesActiveNode ==
  /\ status = "paused" =>
       nodeTypeMap(nodes, activeNodeId) = "condition" /\ timers = {}
  /\ status = "complete" =>
       \/ nodeTypeMap(nodes, activeNodeId) = "end"
       \/ OutEdges(activeNodeId) = {}

TwinRunsAgree == twin = Cur

\* A choose has selected an edge whose sourceHandle in the other instance
\* names the opposite side.
TwinRunsAgreeWitness ==
  /\ lastOp = "choose"
  /\ prevStatus = "paused"
  /\ status = "running"
  /\ \E i \in 1..Len(edges) :
       /\ edges[i].id \in visitedEdgeIds
       /\ branch(edges[i]) = lastBranch
       /\ twinEdges[i].sourceHandle \in {"yes", "no"} \ {lastBranch}

\* C23: after normalization the target of the yes edge of every condition
\* node with exactly two outgoing edges labelled yes and no lies strictly on
\* the preferred side of the target of its no edge: larger x in TB, smaller
\* y in LR.
YesOnPreferredSide ==
  passes >= 1 =>
    \A i \in 1..Len(rawGraph.nodes) :
      LET c == rawGraph.nodes[i]
          out == outEdgesOf(rawGraph, c.id)
      IN (/\ c.type = "condition"
          /\ Cardinality(out) = 2
          /\ {lowerLabel(rawGraph.edges[e]) : e \in out} = {"yes", "no"})
         => LET yesRoot == positions[rawGraph.edges[findEdge(rawGraph, c.id,
                                                            "yes")].to]
                noRoot == positions[rawGraph.edges[findEdge(rawGraph, c.id,
                                                           "no")].to]
            IN IF direction = "TB" THEN yesRoot.x > noRoot.x
               ELSE yesRoot.y < noRoot.y

\* C24: a second run of enforceYesOnRight on the positions a first run
\* produced changes no position.
NormalizationIdempotent == passes >= 2 => positions = prevPositions

\* The condition nodes of the graph under layout that have a yes and a no
\* edge, as indices into its nodes.
BranchingNodes ==
  {i \in 1..Len(rawGraph.nodes) :
     /\ rawGraph.nodes[i].type = "condition"
     /\ findEdge(rawGraph, rawGraph.nodes[i].id, "yes") # 0
     /\ findEdge(rawGraph, rawGraph.nodes[i].id, "no") # 0}

yesTarget(i) ==
  rawGraph.edges[findEdge(rawGraph, rawGraph.nodes[i].id, "yes")].to

noTarget(i) ==
  rawGraph.edges[findEdge(rawGraph, rawGraph.nodes[i].id, "no")].to

\* The nodes both branches of condition node i reach without passing
\* through the condition node itself.
convergenceNodes(i) ==
  getSubtree(rawGraph, yesTarget(i), rawGraph.nodes[i].id)
    \cap getSubtree(rawGraph, noTarget(i), rawGraph.nodes[i].id)

DiagramOutEdges(id) == {i \in 1..Len(edges) : edges[i].source = id}

\* C26: after a layout the two outgoing edges of every condition node with
\* exactly two of them carry distinct anchors, one yes and one no, whatever
\* their labels are.
ConditionAnchorsDistinct ==
  (rawGraph # NoGraph /\ lastOp \in {"generate", "toggleDirection"}) =>
    \A n \in 1..Len(nodes) :
      (nodes[n].type = "condition"
         /\ Cardinality(DiagramOutEdges(nodes[n].id)) = 2)
      => {edges[i].sourceHandle : i \in DiagramOutEdges(nodes[n].id)}
           = {"yes", "no"}

\* C27: after a layout, in either direction and for every placement, every
\* edge that leaves a condition node and is labelled yes or no (in any
\* case) has its lower-cased label as sourceHandle.
AnchorFollowsLabel ==
  (rawGraph # NoGraph /\ lastOp \in {"generate", "toggleDirection"}) =>
    \A i \in 1..Len(edges) :
      (sourceNodeType(rawGraph, edges[i].source) = "condition"
         /\ lowerLabel(rawGraph.edges[i]) \in {"yes", "no"})
      => edges[i].sourceHandle = lowerLabel(rawGraph.edges[i])

AcceptedGraphIsWellFormed ==
  flowResult.error = "none" =>
    LET g == flowResult.graph
        ids == {g.nodes[i].id : i \in 1..Len(g.nodes)}
    IN /\ Cardinality({i \in 1..Len(g.nodes) : g.nodes[i].type = "start"}) = 1
       /\ \E i \in 1..Len(g.nodes) : g.nodes[i].type = "end"
       /\ \A i \in 1..Len(g.nodes) :
            g.nodes[i].type = "condition"
              => Cardinality({e \in 1..Len(g.edges) :
                                g.edges[e].from = g.nodes[i].id}) = 2
       /\ \A e \in 1..Len(g.edges) :
            g.edges[e].from \in ids /\ g.edges[e].to \in ids

\* C30: for a response that passes the schema, generateFlow throws 'Missing
\* start node' when no node is a start node, else 'Missing end node' when
\* no node is an end node, else 'Edge references unknown node' naming the
\* first id, in edge order and from before to, that is not a node id, and
\* else returns the graph.
ValidateReportsFirstDefect ==
  (flowResult # NotCalled /\ FlowGraphSchema(parsed)) =>
    LET ids == {parsed.nodes[i].id : i \in 1..Len(parsed.nodes)}
        types == {parsed.nodes[i].type : i \in 1..Len(parsed.nodes)}
        unknown(e) == IF parsed.edges[e].from \notin ids
                      THEN parsed.edges[e].from
                      ELSE IF parsed.edges[e].to \notin ids
                      THEN parsed.edges[e].to ELSE NULL
    IN IF "start" \notin types
       THEN flowResult = Thrown("Missing start node", NULL)
       ELSE IF "end" \notin types
       THEN flowResult = Thrown("Missing end node", NULL)
       ELSE IF \E e \in 1..Len(parsed.edges) : unknown(e) # NULL
       THEN \E e \in 1..Len(parsed.edges) :
              /\ unknown(e) # NULL
              /\ \A d \in 1..(e - 1) : unknown(d) = NULL
              /\ flowResult = Thrown("Edge references unknown node",
                                     unknown(e))
       ELSE flowResult = Returned(parsed)

\* A graph with a start and an end node has been rejected for the to of its
\* second edge, the first edge being sound.
ValidateReportsFirstDefectWitness ==
  /\ flowResult.error = "Edge references unknown node"
  /\ Len(parsed.edges) = 2
  /\ parsed.edges[1].from = "1" /\ parsed.edges[1].to = "2"
  /\ parsed.edges[2].from = "2"
  /\ flowResult.node = parsed.edges[2].to

\* C33: canUndo is true exactly when undo() would return a snapshot and
\* canRedo exactly when redo() would; an undo() with an empty past and a
\* redo() with an empty future return null and leave past, present and
\* future as they were.
CanUndoIffUndoReturns ==
  /\ canUndo(stateRef) <=> undo(stateRef).returned # NoSnapshot
  /\ canRedo(stateRef) <=> redo(stateRef).returned # NoSnapshot
  /\ (lastOp = "undo" /\ stateBefore.past = <<>>)
       => undoReturned = NoSnapshot /\ stateRef = stateBefore
  /\ (lastOp = "redo" /\ stateBefore.future = <<>>)
       => undoReturned = NoSnapshot /\ stateRef = stateBefore

\* redo() has been called with a present, a past and nothing to redo.
CanUndoIffUndoReturnsWitness ==
  /\ lastOp = "redo"
  /\ stateBefore.future = <<>>
  /\ stateBefore.present # NoSnapshot
  /\ canUndo(stateRef) /\ ~canRedo(stateRef)

\* C37: past holds at most 50 snapshots, past and future together at most
\* 50, and a push onto a full past discards the oldest snapshot of the past.
HistoryBounded ==
  /\ Len(stateRef.past) <= 50
  /\ Len(stateRef.past) + Len(stateRef.future) <= 50
  /\ (lastOp = "push" /\ Len(stateBefore.past) = 50)
       => stateRef.past = Append(Tail(stateBefore.past), stateBefore.present)

\* A push has found 50 snapshots in the past.
HistoryBoundedWitness ==
  /\ lastOp = "push"
  /\ Len(stateBefore.past) = 50
  /\ Len(stateRef.past) = 50

\* C38: with a present, undo() then redo() gives back past, present and
\* future when there is something to undo, and redo() then undo() does
\* when there is something to redo.
UndoRedoRoundTrip ==
  stateRef.present # NoSnapshot =>
    /\ canUndo(stateRef) => redo(undo(stateRef).state).state = stateRef
    /\ canRedo(stateRef) => undo(redo(stateRef).state).state = stateRef

\* The stack has a present between a past and a future, after an undo().
UndoRedoRoundTripWitness ==
  /\ lastOp = "undo"
  /\ stateRef.present # NoSnapshot
  /\ Len(stateRef.past) >= 2
  /\ Len(stateRef.future) >= 2

\* The node ids reachable from source along edges of the graph by paths
\* that do not pass through exclude: the least set that holds source, unless
\* source is exclude, and with a node every target of its edges other than exclude.
reachableAvoiding(graph, source, exclude) ==
  LET ids == idsOf(graph) \cup {source}
      closed(S) ==
        /\ source # exclude => source \in S
        /\ \A i \in 1..Len(graph.edges) :
             (graph.edges[i].from \in S /\ graph.edges[i].to # exclude)
               => graph.edges[i].to \in S
  IN CHOOSE S \in SUBSET ids :
       closed(S) /\ \A T \in SUBSET ids : closed(T) => S \subseteq T

\* The coordinate of a position along the secondary axis of the direction
\* (x in TB, y in LR) and along the primary one.
secondary(p, dir) == IF dir = "TB" THEN p.x ELSE p.y
primary(p, dir) == IF dir = "TB" THEN p.y ELSE p.x

\* Condition node i has its yes target on the wrong side of its no target.
wrongSide(i) ==
  IF direction = "TB"
  THEN positions[yesTarget(i)].x < positions[noTarget(i)].x
  ELSE positions[yesTarget(i)].y > positions[noTarget(i)].y

\* C35: the swap of the branches of one condition node adds d to the
\* secondary-axis coordinate of the nodes only the yes target reaches, takes
\* d from that of the nodes only the no target reaches, d being the no
\* target's coordinate minus the yes target's, and changes nothing else:
\* no primary-axis coordinate, not the condition node, no node outside the
\* two subtrees, no node in both.
SwapMovesOnlyExclusiveSubtrees ==
  \A i \in BranchingNodes :
    wrongSide(i) =>
      LET cond == rawGraph.nodes[i].id
          after == enforceNode(rawGraph, positions, direction,
                               rawGraph.nodes[i])
          d == secondary(positions[noTarget(i)], direction)
                 - secondary(positions[yesTarget(i)], direction)
          yesNodes == reachableAvoiding(rawGraph, yesTarget(i), cond)
          noNodes == reachableAvoiding(rawGraph, noTarget(i), cond)
      IN \A n \in idsOf(rawGraph) :
           /\ primary(after[n], direction) = primary(positions[n], direction)
           /\ secondary(after[n], direction) =
                secondary(positions[n], direction)
                  + (IF n \in yesNodes \ noNodes THEN d
                     ELSE IF n \in noNodes \ yesNodes THEN 0 - d
                     ELSE 0)

\* After a run of enforceYesOnRight a condition node whose branches meet
\* again is on the wrong side, and its swap moves nodes.
SwapMovesOnlyExclusiveSubtreesWitness ==
  /\ passes = 1
  /\ positions # prevPositions
  /\ \E i \in BranchingNodes :
       /\ wrongSide(i)
       /\ enforceNode(rawGraph, positions, direction, rawGraph.nodes[i])
            # positions
       /\ convergenceNodes(i) # {}

\* C36: getSubtree(graph, startId, excludeId) terminates, on graphs with
\* cycles and self-loops too, and returns exactly the nodes reachable from
\* startId by paths that do not pass through excludeId; the set is the one
\* the normalization works with.
SubtreeTerminatesWithReachable ==
  <>[](/\ queue = <<>>
       /\ subtreeVisited
            = reachableAvoiding(rawGraph, subtreeStart, subtreeExclude)
       /\ subtreeVisited = getSubtree(rawGraph, subtreeStart, subtreeExclude))

\* getSubtree has returned on a graph with a self-loop inside a cycle,
\* having passed the self-loop and left out the node behind excludeId.
SubtreeTerminatesWithReachableWitness ==
  /\ rawGraph = SelfLoopGraph
  /\ subtreeStart = "3" /\ subtreeExclude = "2"
  /\ queue = <<>>
  /\ subtreeVisited = {"3"}

\* The number of recorded calls among times[1..n] in the window of `span`
\* milliseconds that ends at the time `end`.
callsInWindow(times, n, end, span) ==
  Cardinality({i \in 1..n : times[i] > end - span /\ times[i] <= end})

displayedGraph ==
  [nodes |-> [i \in 1..Len(nodes) |->
                [id |-> nodes[i].id, label |-> nodes[i].data.label,
                 type |-> nodes[i].type]],
   edges |-> [i \in 1..Len(edges) |->
                FlowEdge(edges[i].source, edges[i].target, edges[i].label)]]

\* C31: a graph that a handler has given to the layout (generate, the
\* shared URL, a toggle of the direction) passes validateFlow, and so does
\* the diagram that the simulation is given, from whichever source it
\* came.
GraphsValidatedBeforeUse ==
  /\ (lastOp \in {"generate", "toggleDirection", "mount"}
        /\ rawGraph # NoGraph /\ layoutVersion > 0)
       => validateFlow(rawGraph) = Returned(rawGraph)
  /\ Len(nodes) > 0 => validateFlow(displayedGraph) = Returned(displayedGraph)

\* C32: after a generation, a clear, a label edit and a history load undo
\* is available and gives back the nodes, the edges and the prompt that
\* were displayed before that handler ran.
EveryActionUndoable ==
  lastOp \in {"generate", "clear", "editLabel", "load"} =>
    /\ canUndo(stateRef)
    /\ Display(undo(stateRef).returned) = displayBefore

\* C34: the displayed nodes are where the layout of their graph in the
\* current direction puts them.
LayoutFollowsDirection ==
  (rawGraph # NoGraph
     /\ Len(nodes) = Len(rawGraph.nodes)
     /\ \A i \in 1..Len(nodes) : nodes[i].id = rawGraph.nodes[i].id) =>
    \A i \in 1..Len(nodes) :
      nodes[i].position = layoutOf(rawGraph, direction).nodes[i].position

\* C39: rawGraph is null exactly when no nodes are displayed, and otherwise
\* rawGraph and the displayed nodes have the same ids with the same labels.
RawGraphMatchesDisplay ==
  /\ rawGraph = NoGraph <=> Len(nodes) = 0
  /\ rawGraph # NoGraph =>
       {[id |-> nodes[i].id, label |-> nodes[i].data.label] :
          i \in 1..Len(nodes)}
         = {[id |-> rawGraph.nodes[i].id, label |-> rawGraph.nodes[i].label] :
              i \in 1..Len(rawGraph.nodes)}

----------------------------------------------------------------------------
TypeOK ==
  /\ status \in {"idle", "running", "paused", "stopped", "complete"}
  /\ activeNodeId \in NodeIds \cup {NULL}
  /\ visitedNodeIds \subseteq NodeIds
  /\ timerRef \in 0..(MaxTimers + 1)
  /\ Cardinality(timers) <= MaxTimers

====
